---- MODULE Spec2Model ----
(***************************************************************************)
(* CacheCraft: the eviction policies of src/src/eviction.ts and the part   *)
(* of the cache engine of src/src/cache-engine.ts that stores entries,     *)
(* evicts, clears and synchronises engines over a shared object store.     *)
(*                                                                         *)
(* Strings are sequences of one-character strings, so that buildKey and    *)
(* parseKey are modelled by the concatenation and prefix test they do.     *)
(* Optional fields of an entry that are absent hold Undefined.             *)
(***************************************************************************)
EXTENDS Integers, Sequences, FiniteSets, TLC

\* ---------------------------------------------------------------- bounds

\* Longest snapshot handed to a policy.
MaxEntries == 3
\* Entry sizes range over 1..MaxEntrySize.
MaxEntrySize == 2
\* The clock and every timestamp range over 1..MaxTime.
MaxTime == 3
\* accessCount ranges over 0..MaxCount (or is absent).
MaxCount == 3
\* priority ranges over 0..MaxPriority (or is absent).
MaxPriority == 1
\* maxSize ranges over 0..MaxBudget.
MaxBudget == 3
\* Calls of shouldEvict made on one policy instance.
MaxCalls == 2
\* config.maxSize of the engines, in the unit of the entry sizes.
ConfigMaxSize == 3
\* Sync messages posted and not yet handled.
MaxPending == 1
\* Reads of one entry that get() counts.
MaxReads == 1
\* The evictions one engine counts between two resetStats().
MaxEvictions == 2

\* Calls of one engine that are in flight at the same time.
MaxTasks == 2
\* Calls made in one behaviour of the engines' calls in flight.
MaxOps == 3
\* Storage errors the object store raises in one behaviour.
MaxFaults == 1
\* Frames of nested emit() calls the model keeps of the call stack.
MaxDepth == 3
\* Runs of one listener that are counted; a further run leaves the count.
MaxInvocations == 2

\* The value of an absent optional field (JavaScript's undefined).
Undefined == -1

VARIABLES
    now,          \* Date.now()
    pStrategy,    \* the identifier given to createEvictionPolicy
    pEntries,     \* the snapshot given to shouldEvict
    pMaxSize,     \* maxSize given to shouldEvict
    pCurrentSize, \* currentSize given to shouldEvict
    pCalls,       \* calls of shouldEvict made on the policy instance
    pResult,      \* what the last call returned
    pEvalAt,      \* Date.now() during the last call
    pFirst,       \* what the first call returned
    pFirstAt,     \* Date.now() during the first call
    store,        \* the object store: full key -> entry, shared by the engines
    enableSync,   \* config.enableSync, which namespace() copies
    channel,      \* sync messages posted and not yet handled: [to, msg]
    enableStats,  \* config.enableStats, which namespace() copies
    evictions,    \* stats.evictions of each engine
    last,         \* the call that ran last: <<operation, engine>>
    tasks,        \* the calls in flight, each at one of its awaits
    jobs,         \* the updateStats() calls in flight
    stats,        \* the other fields of stats of each engine
    started,      \* calls made so far
    faults,       \* storage errors the object store will still raise
    revalidating, \* revalidate() promises not yet resolved
    registered,   \* this.eventListeners: how each listener is registered
    invoked,      \* times each listener ran since it was registered
    stack,        \* the emit() calls on the call stack, innermost last
    written       \* the (namespace, key) pairs written, with their store key

policyVars == <<pStrategy, pEntries, pMaxSize, pCurrentSize, pCalls, pResult,
                pEvalAt, pFirst, pFirstAt>>

engineVars == <<store, enableSync, channel, enableStats, evictions, last>>

taskVars == <<tasks, jobs, stats, started, faults, revalidating>>

listenerVars == <<registered, invoked, stack>>

vars == <<now, policyVars, engineVars, taskVars, listenerVars, written>>

\* ------------------------------------------------------------ JavaScript

\* x || 0 and x ?? 0 on an optional number that is never NaN or null.
OrZero(x) == IF x = Undefined \/ x = 0 THEN 0 ELSE x

NullishZero(x) == IF x = Undefined THEN 0 ELSE x

\* The truthiness of an optional number.
Truthy(x) == x # Undefined /\ x # 0

RECURSIVE SumSize(_)
\* entries.reduce((sum, e) => sum + e.entry.size, 0)
SumSize(s) == IF s = <<>> THEN 0 ELSE Head(s).entry.size + SumSize(Tail(s))

KeysOf(s) == [i \in 1..Len(s) |-> s[i].key]

\* ------------------------------------------------------- eviction policies

RECURSIVE Accumulate_StopEarly(_, _)
\* Accumulate leaving the loop before the key that would meet the target.
Accumulate_StopEarly(sorted, sizeToFree) ==
    IF sorted = <<>> \/ sizeToFree - Head(sorted).entry.size <= 0
    THEN <<>>
    ELSE <<Head(sorted).key>>
         \o Accumulate_StopEarly(Tail(sorted),
                                 sizeToFree - Head(sorted).entry.size)

RECURSIVE Accumulate_OverEvict(_, _)
\* Accumulate going on while sizeToFree is 0: it breaks on < 0, not <= 0.
Accumulate_OverEvict(sorted, sizeToFree) ==
    IF sorted = <<>> \/ sizeToFree < 0
    THEN <<>>
    ELSE <<Head(sorted).key>>
         \o Accumulate_OverEvict(Tail(sorted),
                                 sizeToFree - Head(sorted).entry.size)

RECURSIVE Accumulate(_, _)
\* The loop every policy ends with: push keys until sizeToFree <= 0.
Accumulate(sorted, sizeToFree) ==
    IF sorted = <<>> \/ sizeToFree <= 0
    THEN <<>>
    ELSE <<Head(sorted).key>>
         \o Accumulate(Tail(sorted), sizeToFree - Head(sorted).entry.size)

\* The comparators of the policies' sorts.
\* LRULess sorting the most recently accessed first.
LRULess_NewestFirst(a, b) == b.entry.lastAccessed < a.entry.lastAccessed

LRULess(a, b) == a.entry.lastAccessed < b.entry.lastAccessed

\* LFULess without the lastAccessed tie-break.
LFULess_CountOnly(a, b) ==
    OrZero(a.entry.accessCount) < OrZero(b.entry.accessCount)

LFULess(a, b) ==
    LET countA == OrZero(a.entry.accessCount)
        countB == OrZero(b.entry.accessCount)
    IN  IF countA # countB THEN countA < countB
        ELSE a.entry.lastAccessed < b.entry.lastAccessed

\* FIFOLess breaking ties of createdAt by lastAccessed.
FIFOLess_AccessTieBreak(a, b) ==
    IF a.entry.createdAt # b.entry.createdAt
    THEN a.entry.createdAt < b.entry.createdAt
    ELSE a.entry.lastAccessed < b.entry.lastAccessed

FIFOLess(a, b) == a.entry.createdAt < b.entry.createdAt

\* PriorityLess sorting the highest priority first.
PriorityLess_HighFirst(a, b) ==
    LET priorityA == NullishZero(a.entry.priority)
        priorityB == NullishZero(b.entry.priority)
    IN  IF priorityA # priorityB THEN priorityB < priorityA
        ELSE a.entry.lastAccessed < b.entry.lastAccessed

PriorityLess(a, b) ==
    LET priorityA == NullishZero(a.entry.priority)
        priorityB == NullishZero(b.entry.priority)
    IN  IF priorityA # priorityB THEN priorityA < priorityB
        ELSE a.entry.lastAccessed < b.entry.lastAccessed

ARCCountLess(a, b) == OrZero(a.entry.accessCount) < OrZero(b.entry.accessCount)

\* TTLLess sorting latest-to-expire first.
TTLLess_Descending(a, b) ==
    OrZero(b.entry.expiresAt) < OrZero(a.entry.expiresAt)

TTLLess(a, b) == OrZero(a.entry.expiresAt) < OrZero(b.entry.expiresAt)

\* SizeLess sorting the smallest first.
SizeLess_Ascending(a, b) == a.entry.size < b.entry.size

SizeLess(a, b) == b.entry.size < a.entry.size

\* The comparator a policy hands to Array.prototype.sort, by name.
Compare(compareFn, a, b) ==
    CASE compareFn = "LRULess" -> LRULess(a, b)
      [] compareFn = "LFULess" -> LFULess(a, b)
      [] compareFn = "FIFOLess" -> FIFOLess(a, b)
      [] compareFn = "PriorityLess" -> PriorityLess(a, b)
      [] compareFn = "ARCCountLess" -> ARCCountLess(a, b)
      [] compareFn = "TTLLess" -> TTLLess(a, b)
      [] compareFn = "SizeLess" -> SizeLess(a, b)

\* Array.prototype.sort with a comparator that is a strict weak order: the
\* sort is stable, so the item at index i lands after every item that
\* compares less and after every earlier item that compares equal.
StableSort(s, compareFn) ==
    LET n == Len(s)
        Rank(i) == Cardinality({j \in 1..n :
                       \/ Compare(compareFn, s[j], s[i])
                       \/ (~Compare(compareFn, s[i], s[j]) /\ j < i)}) + 1
    IN  [p \in 1..n |-> s[CHOOSE i \in 1..n : Rank(i) = p]]

LRUShouldEvict(entries, maxSize, currentSize) ==
    IF currentSize <= maxSize THEN <<>>
    ELSE Accumulate(StableSort(entries, "LRULess"), currentSize - maxSize)

LFUShouldEvict(entries, maxSize, currentSize) ==
    IF currentSize <= maxSize THEN <<>>
    ELSE Accumulate(StableSort(entries, "LFULess"), currentSize - maxSize)

FIFOShouldEvict(entries, maxSize, currentSize) ==
    IF currentSize <= maxSize THEN <<>>
    ELSE Accumulate(StableSort(entries, "FIFOLess"), currentSize - maxSize)

PriorityShouldEvict(entries, maxSize, currentSize) ==
    IF currentSize <= maxSize THEN <<>>
    ELSE Accumulate(StableSort(entries, "PriorityLess"), currentSize - maxSize)

IsT1(e) == OrZero(e.entry.accessCount) <= 1

IsT2(e) == OrZero(e.entry.accessCount) > 1

\* ARCShouldEvict adapting its split to the calls made on the instance, as
\* the unused field p would: the recency set grows with every call.
ARCShouldEvict_Adaptive(entries, maxSize, currentSize) ==
    IF currentSize <= maxSize THEN <<>>
    ELSE LET InT1(e) == OrZero(e.entry.accessCount) <= 1 + pCalls
             InT2(e) == OrZero(e.entry.accessCount) > 1 + pCalls
             t1Entries == StableSort(SelectSeq(entries, InT1), "LRULess")
             t2Entries == StableSort(SelectSeq(entries, InT2), "ARCCountLess")
         IN  Accumulate(t1Entries \o t2Entries, currentSize - maxSize)

\* ARCShouldEvict evicting from the frequently used entries first.
ARCShouldEvict_FrequentFirst(entries, maxSize, currentSize) ==
    IF currentSize <= maxSize THEN <<>>
    ELSE LET t1Entries == StableSort(SelectSeq(entries, IsT1), "LRULess")
             t2Entries == StableSort(SelectSeq(entries, IsT2), "ARCCountLess")
         IN  Accumulate(t2Entries \o t1Entries, currentSize - maxSize)

\* The fields t1, t2, b1, b2 and p of the class are never read or written.
ARCShouldEvict(entries, maxSize, currentSize) ==
    IF currentSize <= maxSize THEN <<>>
    ELSE LET t1Entries == StableSort(SelectSeq(entries, IsT1), "LRULess")
             t2Entries == StableSort(SelectSeq(entries, IsT2), "ARCCountLess")
         IN  Accumulate(t1Entries \o t2Entries, currentSize - maxSize)

\* e.entry.expiresAt && e.entry.expiresAt < now, at evaluation time t.
ExpiredAt(e, t) == Truthy(e.entry.expiresAt) /\ e.entry.expiresAt < t

\* TTLEvictAt without the currentSize <= maxSize check.
TTLEvictAt_NoGuard(entries, maxSize, currentSize, t) ==
    LET IsExp(e) == ExpiredAt(e, t)
        HasTTL(e) == Truthy(e.entry.expiresAt) /\ ~ExpiredAt(e, t)
        expired == SelectSeq(entries, IsExp)
        sizeFreed == SumSize(expired)
    IN  IF currentSize - sizeFreed > maxSize
        THEN KeysOf(expired)
             \o Accumulate(StableSort(SelectSeq(entries, HasTTL), "TTLLess"),
                           currentSize - sizeFreed - maxSize)
        ELSE KeysOf(expired)

\* TTLEvictAt taking expired entries only until the target is met.
TTLEvictAt_LazyExpired(entries, maxSize, currentSize, t) ==
    IF currentSize <= maxSize THEN <<>>
    ELSE LET IsExp(e) == ExpiredAt(e, t)
             HasTTL(e) == Truthy(e.entry.expiresAt) /\ ~ExpiredAt(e, t)
             expired == SelectSeq(entries, IsExp)
         IN  Accumulate(expired \o StableSort(SelectSeq(entries, HasTTL), "TTLLess"),
                        currentSize - maxSize)

\* TTLEvictAt whose second phase takes every entry that is not expired,
\* with or without an expiresAt.
TTLEvictAt_AnyEntry(entries, maxSize, currentSize, t) ==
    IF currentSize <= maxSize THEN <<>>
    ELSE LET IsExp(e) == ExpiredAt(e, t)
             NotExp(e) == ~ExpiredAt(e, t)
             expired == SelectSeq(entries, IsExp)
             sizeFreed == SumSize(expired)
         IN  IF currentSize - sizeFreed > maxSize
             THEN KeysOf(expired)
                  \o Accumulate(StableSort(SelectSeq(entries, NotExp), "TTLLess"),
                                currentSize - sizeFreed - maxSize)
             ELSE KeysOf(expired)

\* The policy's body with const now = Date.now() read as t.
TTLEvictAt(entries, maxSize, currentSize, t) ==
    IF currentSize <= maxSize THEN <<>>
    ELSE LET IsExp(e) == ExpiredAt(e, t)
             HasTTL(e) == Truthy(e.entry.expiresAt) /\ ~ExpiredAt(e, t)
             expired == SelectSeq(entries, IsExp)
             sizeFreed == SumSize(expired)
         IN  IF currentSize - sizeFreed > maxSize
             THEN KeysOf(expired)
                  \o Accumulate(StableSort(SelectSeq(entries, HasTTL), "TTLLess"),
                                currentSize - sizeFreed - maxSize)
             ELSE KeysOf(expired)

TTLShouldEvict(entries, maxSize, currentSize) ==
    TTLEvictAt(entries, maxSize, currentSize, now)

SizeBasedShouldEvict(entries, maxSize, currentSize) ==
    IF currentSize <= maxSize THEN <<>>
    ELSE Accumulate(StableSort(entries, "SizeLess"), currentSize - maxSize)

\* arrays[ref].sort(compareFn): the sort is in place, on the array it is
\* called on, and leaves every other array as it is.
SortInPlace(arrays, ref, compareFn) ==
    [arrays EXCEPT ![ref] = StableSort(@, compareFn)]

\* LRUArrays calling sort on entries itself: sorted is then the same array.
LRUArrays_InPlace(entries) ==
    LET after == SortInPlace([entries |-> entries], "entries", "LRULess")
    IN  [entries |-> after.entries, sorted |-> after.entries]

\* The arrays of each policy once its sorts are done: entries is the array
\* the caller passed, the others are the new arrays that [...entries] and
\* entries.filter(...) made, on which the policy calls sort.
LRUArrays(entries) ==
    SortInPlace([entries |-> entries, sorted |-> entries], "sorted", "LRULess")

LFUArrays(entries) ==
    SortInPlace([entries |-> entries, sorted |-> entries], "sorted", "LFULess")

FIFOArrays(entries) ==
    SortInPlace([entries |-> entries, sorted |-> entries], "sorted", "FIFOLess")

PriorityArrays(entries) ==
    SortInPlace([entries |-> entries, sorted |-> entries], "sorted",
                "PriorityLess")

SizeBasedArrays(entries) ==
    SortInPlace([entries |-> entries, sorted |-> entries], "sorted", "SizeLess")

ARCArrays(entries) ==
    SortInPlace(SortInPlace([entries |-> entries,
                             t1Entries |-> SelectSeq(entries, IsT1),
                             t2Entries |-> SelectSeq(entries, IsT2)],
                            "t1Entries", "LRULess"),
                "t2Entries", "ARCCountLess")

TTLArrays(entries, maxSize, currentSize, t) ==
    LET IsExp(e) == ExpiredAt(e, t)
        HasTTL(e) == Truthy(e.entry.expiresAt) /\ ~ExpiredAt(e, t)
        expired == SelectSeq(entries, IsExp)
    IN  IF currentSize - SumSize(expired) > maxSize
        THEN SortInPlace([entries |-> entries, expired |-> expired,
                          withTTL |-> SelectSeq(entries, HasTTL)],
                         "withTTL", "TTLLess")
        ELSE [entries |-> entries, expired |-> expired]

\* The array the caller passed to shouldEvict, as the call leaves it.
EntriesAfter(class, entries, maxSize, currentSize) ==
    IF currentSize <= maxSize THEN entries
    ELSE CASE class = "LRU" -> LRUArrays(entries).entries
           [] class = "LFU" -> LFUArrays(entries).entries
           [] class = "FIFO" -> FIFOArrays(entries).entries
           [] class = "Priority" -> PriorityArrays(entries).entries
           [] class = "ARC" -> ARCArrays(entries).entries
           [] class = "TTL" ->
                TTLArrays(entries, maxSize, currentSize, now).entries
           [] class = "SizeBased" -> SizeBasedArrays(entries).entries

\* The identifiers createEvictionPolicy knows.
Strategies == {"lru", "lfu", "fifo", "priority", "arc", "ttl", "size"}

\* createEvictionPolicy falling back to fifo on an identifier it does not know.
createEvictionPolicy_DefaultFIFO(strategy) ==
    CASE strategy = "lru" -> "LRU"
      [] strategy = "lfu" -> "LFU"
      [] strategy = "fifo" -> "FIFO"
      [] strategy = "priority" -> "Priority"
      [] strategy = "arc" -> "ARC"
      [] strategy = "ttl" -> "TTL"
      [] strategy = "size" -> "SizeBased"
      [] OTHER -> "FIFO"

\* createEvictionPolicy(strategy): the class name of the instance it makes.
createEvictionPolicy(strategy) ==
    CASE strategy = "lru" -> "LRU"
      [] strategy = "lfu" -> "LFU"
      [] strategy = "fifo" -> "FIFO"
      [] strategy = "priority" -> "Priority"
      [] strategy = "arc" -> "ARC"
      [] strategy = "ttl" -> "TTL"
      [] strategy = "size" -> "SizeBased"
      [] OTHER -> "LRU"

\* policy.shouldEvict(entries, maxSize, currentSize) on an instance of class.
shouldEvict(class, entries, maxSize, currentSize) ==
    CASE class = "LRU" -> LRUShouldEvict(entries, maxSize, currentSize)
      [] class = "LFU" -> LFUShouldEvict(entries, maxSize, currentSize)
      [] class = "FIFO" -> FIFOShouldEvict(entries, maxSize, currentSize)
      [] class = "Priority" -> PriorityShouldEvict(entries, maxSize, currentSize)
      [] class = "ARC" -> ARCShouldEvict(entries, maxSize, currentSize)
      [] class = "TTL" -> TTLShouldEvict(entries, maxSize, currentSize)
      [] class = "SizeBased" -> SizeBasedShouldEvict(entries, maxSize, currentSize)

\* ------------------------------------------------------------ key utilities

\* buildKey(namespace, key): `${namespace}:${key}`, or key in the root.
buildKey(namespace, key) ==
    IF namespace # <<>> THEN namespace \o <<":">> \o key ELSE key

\* fullKey.startsWith(prefix)
StartsWith(fullKey, prefix) ==
    /\ Len(fullKey) >= Len(prefix)
    /\ SubSeq(fullKey, 1, Len(prefix)) = prefix

\* parseKey(fullKey, namespace)
parseKey(fullKey, namespace) ==
    IF namespace = <<>> THEN fullKey
    ELSE LET prefix == namespace \o <<":">>
         IN  IF StartsWith(fullKey, prefix)
             THEN SubSeq(fullKey, Len(prefix) + 1, Len(fullKey))
             ELSE fullKey

\* The UTF-16 code unit order of the characters keys are made of.
CharCode(c) ==
    CASE c = ":" -> 58 [] c = "a" -> 97 [] c = "b" -> 98
      [] c = "x" -> 120 [] c = "y" -> 121

RECURSIVE KeyLess(_, _)
\* The order of string keys in an IndexedDB object store, which a cursor
\* follows: by code unit, a proper prefix first.
KeyLess(k1, k2) ==
    IF k2 = <<>> THEN FALSE
    ELSE IF k1 = <<>> THEN TRUE
    ELSE IF Head(k1) # Head(k2) THEN CharCode(Head(k1)) < CharCode(Head(k2))
    ELSE KeyLess(Tail(k1), Tail(k2))

\* isExpired() that never reports an entry as expired.
isExpired_Never(expiresAt) == FALSE

\* isExpired(expiresAt)
isExpired(expiresAt) == IF ~Truthy(expiresAt) THEN FALSE ELSE now > expiresAt

\* calculateTTL(ttl)
calculateTTL(ttl) == IF ~Truthy(ttl) THEN Undefined ELSE now + ttl

\* ------------------------------------------------------------- the engines

\* The engines that share the store: the root engine, whose namespace is
\* empty, and the engine namespace("a") returned.
Namespaces == {<<>>, <<"a">>}

\* The keys callers use.
Keys == {<<"x">>, <<"y">>}

\* config.evictionStrategy
evictionStrategy == "lru"

\* k(key) of engine ns.
k(ns, key) == buildKey(ns, key)

\* s.put(val, fullKey)
Put(s, fullKey, val) ==
    [f \in DOMAIN s \cup {fullKey} |-> IF f = fullKey THEN val ELSE s[f]]

\* s.delete(fullKey): no error when the key is absent.
Delete(s, fullKey) == [f \in DOMAIN s \ {fullKey} |-> s[f]]

\* putRaw(key, val) and deleteRaw(key) of engine ns.
putRaw(s, ns, key, val) == Put(s, k(ns, key), val)

deleteRaw(s, ns, key) == Delete(s, k(ns, key))

\* getAllEntries(): a cursor over the whole store, in key order.
getAllEntries(s) ==
    LET Rank(f) == Cardinality({g \in DOMAIN s : KeyLess(g, f)}) + 1
        At(i) == CHOOSE f \in DOMAIN s : Rank(f) = i
    IN  [i \in 1..Cardinality(DOMAIN s) |-> [key |-> At(i), entry |-> s[At(i)]]]

\* What evict() asks the policy to remove from store s.
keysToEvict(s) ==
    LET entries == getAllEntries(s)
        currentSize == SumSize(entries)
    IN  IF currentSize <= ConfigMaxSize THEN <<>>
        ELSE shouldEvict(createEvictionPolicy(evictionStrategy), entries,
                         ConfigMaxSize, currentSize)

RECURSIVE DeleteEach(_, _, _)
\* for (const key of keysToEvict) await this.deleteRaw(parseKey(key, ns))
DeleteEach(s, ns, keys) ==
    IF keys = <<>> THEN s
    ELSE DeleteEach(deleteRaw(s, ns, parseKey(Head(keys), ns)), ns, Tail(keys))

\* evict() of engine ns on store s: the store it leaves and what it adds
\* to the engine's stats.evictions, one for each key the policy returned.
evict(s, ns) ==
    LET keys == keysToEvict(s)
    IN  [store |-> DeleteEach(s, ns, keys),
         counted |-> IF enableStats THEN Len(keys) ELSE 0]

\* An entry built with lastAccessed left at zero until the first read.
NewEntry_NeverAccessed(size, ttl) ==
    [size |-> size, createdAt |-> now, lastAccessed |-> 0, accessCount |-> 0,
     expiresAt |-> calculateTTL(ttl), priority |-> Undefined]

\* The entry set() and setBlob() build.
NewEntry(size, ttl) ==
    [size |-> size, createdAt |-> now, lastAccessed |-> now, accessCount |-> 0,
     expiresAt |-> calculateTTL(ttl), priority |-> Undefined]

\* broadcast(message) of engine ns: the message reaches the channel of
\* every other engine of the same dbName.
Posted(ns, msg) ==
    IF enableSync
    THEN channel \cup {[to |-> e, msg |-> msg] : e \in Namespaces \ {ns}}
    ELSE channel

\* The bound on the messages in flight.
CanPost == ~enableSync
           \/ Cardinality(channel) + Cardinality(Namespaces) - 1 <= MaxPending

\* The bound on the evictions an engine counts.
CanCount(ns, counted) == evictions[ns] + counted <= MaxEvictions

NoKey == <<>>

\* The local `entry` of a call that holds none.
NoEntry == <<>>

TaskIds == 1..MaxTasks

\* A call slot no call has used.
IdleTask ==
    [op |-> "none", ns |-> <<>>, key |-> NoKey, pc |-> "idle",
     entry |-> NoEntry, swr |-> FALSE, ttlOnRevalidate |-> Undefined,
     now |-> 0, expired |-> FALSE, keysToEvict |-> <<>>, i |-> 1,
     removed |-> <<>>, emitted |-> <<>>, result |-> "none", by |-> "caller",
     proceed |-> TRUE, present |-> FALSE, existed |-> FALSE]

\* this.stats of a new engine, without evictions and the rates.
NewStats ==
    [totalSize |-> 0, entryCount |-> 0, hits |-> 0, misses |-> 0, sets |-> 0,
     deletes |-> 0, errors |-> 0]

\* The events listeners are registered for.
Events == {"set", "error"}

\* The listeners callers register: the event each is given to on() or
\* once() with, and whether its body throws.
Listeners == [event : Events, throws : BOOLEAN]

\* this.eventListeners of a new engine, and no emit() running.
NoListeners ==
    /\ registered = [l \in Listeners |-> "no"]
    /\ invoked = [l \in Listeners |-> 0]
    /\ stack = <<>>

\* No call was made and none is in flight.
NoCalls ==
    /\ tasks = [t \in TaskIds |-> IdleTask]
    /\ jobs = {}
    /\ stats = [ns \in Namespaces |-> NewStats]
    /\ started = 0
    /\ faults = 0
    /\ revalidating = {}

\* The engines with sync enabled or not and statistics disabled.
Init ==
    /\ NoListeners
    /\ written = {}
    /\ now = 1
    /\ store = <<>>
    /\ enableSync \in BOOLEAN
    /\ channel = {}
    /\ enableStats = FALSE
    /\ evictions = [ns \in Namespaces |-> 0]
    /\ last = <<"new", <<>>>>
    /\ pStrategy = "lru"
    /\ pEntries = <<>>
    /\ pMaxSize = 0
    /\ pCurrentSize = 0
    /\ pCalls = 0
    /\ pResult = <<>>
    /\ pEvalAt = 0
    /\ pFirst = <<>>
    /\ pFirstAt = 0
    /\ NoCalls

\* set(key, value, opt) on engine ns, with no plugin: the entry is put,
\* evict() runs, the message is broadcast.
Set(ns, key, size, ttl) ==
    /\ CanPost
    /\ \E after \in {evict(putRaw(store, ns, key, NewEntry(size, ttl)), ns)} :
          /\ CanCount(ns, after.counted)
          /\ store' = after.store
          /\ evictions' = [evictions EXCEPT ![ns] = @ + after.counted]
    /\ channel' = Posted(ns, [type |-> "set", key |-> key, source |-> ns])
    /\ last' = <<"set", ns>>
    /\ UNCHANGED <<now, enableSync, enableStats, policyVars, taskVars,
                   listenerVars, written>>

\* setBlob(key, blob, opt) on engine ns.
SetBlob(ns, key, size, ttl) ==
    /\ \E after \in {evict(putRaw(store, ns, key, NewEntry(size, ttl)), ns)} :
          /\ CanCount(ns, after.counted)
          /\ store' = after.store
          /\ evictions' = [evictions EXCEPT ![ns] = @ + after.counted]
    /\ last' = <<"setBlob", ns>>
    /\ UNCHANGED <<now, enableSync, enableStats, channel, policyVars, taskVars,
                   listenerVars, written>>

\* get(key) on engine ns, with no option and no plugin.
Get(ns, key) ==
    /\ IF k(ns, key) \notin DOMAIN store
       THEN store' = store
       ELSE LET entry == store[k(ns, key)]
            IN  IF ~isExpired(entry.expiresAt)
                THEN /\ OrZero(entry.accessCount) < MaxReads
                     /\ store' = putRaw(store, ns, key,
                            [entry EXCEPT !.lastAccessed = now,
                                          !.accessCount = OrZero(@) + 1])
                ELSE store' = deleteRaw(store, ns, key)
    /\ last' = <<"get", ns>>
    /\ UNCHANGED <<now, enableSync, enableStats, channel, evictions, policyVars, taskVars,
                   listenerVars, written>>

\* remove(key) on engine ns, with no plugin.
Remove(ns, key) ==
    /\ CanPost
    /\ store' = deleteRaw(store, ns, key)
    /\ channel' = Posted(ns, [type |-> "delete", key |-> key, source |-> ns])
    /\ last' = <<"remove", ns>>
    /\ UNCHANGED <<now, enableSync, enableStats, evictions, policyVars, taskVars,
                   listenerVars, written>>

\* clear() on engine ns, with no plugin: s.clear() on the object store.
Clear(ns) ==
    /\ CanPost
    /\ store' = <<>>
    /\ channel' = Posted(ns, [type |-> "clear", key |-> NoKey, source |-> ns])
    /\ last' = <<"clear", ns>>
    /\ UNCHANGED <<now, enableSync, enableStats, evictions, policyVars, taskVars,
                   listenerVars, written>>

\* A handler that broadcasts the message it received to the other engines.
Received_Relayed(d) == Posted(d.to, d.msg) \ {d}

\* The channel after handleSyncMessage(message): the message is consumed,
\* and no branch of the handler calls broadcast.
Received(d) == channel \ {d}

\* handleSyncMessage(message) on the engine the message reached.
HandleSyncMessage(d) ==
    /\ d \in channel
    /\ channel' = Received(d)
    /\ store' = IF d.msg.source = d.to THEN store
                ELSE CASE d.msg.type = "set" -> store
                       [] d.msg.type = "delete" ->
                            deleteRaw(store, d.to, d.msg.key)
                       [] d.msg.type = "clear" -> <<>>
    /\ last' = <<"handleSyncMessage", d.to>>
    /\ UNCHANGED <<now, enableSync, enableStats, evictions, policyVars, taskVars,
                   listenerVars, written>>

\* resetStats() on engine ns.
ResetStats(ns) ==
    /\ evictions' = [evictions EXCEPT ![ns] = 0]
    /\ last' = <<"resetStats", ns>>
    /\ UNCHANGED <<now, store, enableSync, enableStats, channel, policyVars, taskVars,
                   listenerVars, written>>

\* Date.now() advances.
Tick ==
    /\ now < MaxTime
    /\ now' = now + 1
    /\ UNCHANGED <<store, enableSync, enableStats, channel, evictions, last, policyVars, taskVars,
                   listenerVars, written>>

\* The ttl option set() and setBlob() are given: none.
TTLs == {Undefined}

Next ==
    \/ \E ns \in Namespaces, key \in Keys, size \in 1..MaxEntrySize, ttl \in TTLs :
          Set(ns, key, size, ttl)
    \/ \E ns \in Namespaces, key \in Keys, size \in 1..MaxEntrySize, ttl \in TTLs :
          SetBlob(ns, key, size, ttl)
    \/ \E ns \in Namespaces, key \in Keys : Get(ns, key)
    \/ \E ns \in Namespaces, key \in Keys : Remove(ns, key)
    \/ \E ns \in Namespaces : Clear(ns)
    \/ \E d \in channel : HandleSyncMessage(d)
    \/ Tick

Spec == Init /\ [][Next]_vars

\* The engines with statistics enabled and sync disabled, the defaults.
InitStats ==
    /\ NoListeners
    /\ written = {}
    /\ now = 1
    /\ store = <<>>
    /\ enableSync = FALSE
    /\ channel = {}
    /\ enableStats = TRUE
    /\ evictions = [ns \in Namespaces |-> 0]
    /\ last = <<"new", <<>>>>
    /\ pStrategy = "lru"
    /\ pEntries = <<>>
    /\ pMaxSize = 0
    /\ pCurrentSize = 0
    /\ pCalls = 0
    /\ pResult = <<>>
    /\ pEvalAt = 0
    /\ pFirst = <<>>
    /\ pFirstAt = 0
    /\ NoCalls

\* The calls that write, delete or reset: get() neither runs evict() nor
\* touches stats.evictions.
NextStats ==
    \/ \E ns \in Namespaces, key \in Keys, size \in 1..MaxEntrySize, ttl \in TTLs :
          Set(ns, key, size, ttl)
    \/ \E ns \in Namespaces, key \in Keys, size \in 1..MaxEntrySize, ttl \in TTLs :
          SetBlob(ns, key, size, ttl)
    \/ \E ns \in Namespaces, key \in Keys : Remove(ns, key)
    \/ \E ns \in Namespaces : Clear(ns)
    \/ \E ns \in Namespaces : ResetStats(ns)
    \/ Tick

SpecStats == InitStats /\ [][NextStats]_vars

\* ------------------------------------------------- the calls in flight
\*
\* A call of set() or get() runs up to its next await in one step: the step
\* is the awaited storage request taking effect, followed by the code up to
\* the next request.  Calls on the same store interleave at these steps.

\* The namespace of the root engine.
Root == <<>>

\* The values callers store, and getSize(JSON.stringify(value)) of each.
Values == {"v1", "v2"}

getSize(value) == IF value = "v1" THEN 1 ELSE 2

\* The slot holds no call that is still running.
Free(t) == tasks[t].pc \in {"idle", "resolved", "rejected"}

SomeFree == \E t \in TaskIds : Free(t)

\* The slot a new call takes.
Slot == CHOOSE t \in TaskIds : Free(t) /\ \A u \in TaskIds : Free(u) => t <= u

\* this.emit(event, { event, key, ... })
Event(name, key) == [event |-> name, key |-> key, keys |-> <<>>, count |-> 0]

\* this.emit("evict", { metadata: { keys, count: keys.length } })
EvictEvent(keys) ==
    [event |-> "evict", key |-> NoKey, keys |-> keys, count |-> Len(keys)]

\* this.updateStats() of engine ns, not awaited: the call is in flight
\* before its `await this.size()`.
updateStats(ns) ==
    IF enableStats THEN jobs \cup {[ns |-> ns, pc |-> "size", size |-> 0]}
    ELSE jobs

\* stats.<field>++ of engine ns, under `if (this.config.enableStats)`.
Counted(ns, field) ==
    IF enableStats THEN [stats EXCEPT ![ns][field] = @ + 1] ELSE stats

\* set(key, value, { ttl }) up to `await this.putRaw(key, entry)`.
SetTask(ns, key, value, ttl, by) ==
    [IdleTask EXCEPT !.op = "set", !.ns = ns, !.key = key, !.pc = "putRaw",
                     !.entry = [value |-> value] @@ NewEntry(getSize(value), ttl),
                     !.by = by]

\* this.broadcast({ type, key, source: this.instanceId }) of a call.
Broadcast(task, type) ==
    Posted(task.ns, [type |-> type, key |-> task.key, source |-> task.ns])

\* set() after evict() returned: the 'set' event, and the promise resolves.
SetReturns(task) ==
    [task EXCEPT !.emitted = Append(@, Event("set", task.key)),
                 !.pc = "resolved", !.result = "void"]

\* set() that did not wait for the evict() it started.
AfterPutRaw_EvictDetached(task) ==
    [SetReturns(task) EXCEPT !.pc = "getAllEntries"]

\* set() after putRaw resolved: `await this.evict()`.
AfterPutRaw(task) == [task EXCEPT !.pc = "getAllEntries"]

\* The catch of set(): handleError(error), then the error is thrown again.
SetRejects(task) ==
    [task EXCEPT !.emitted = Append(@, Event("error", task.key)),
                 !.pc = "rejected", !.result = "rejected"]

\* A delete request that is an error when the key is not in the store.
deleteFails_WhenAbsent(fault, s, fullKey) == fault \/ fullKey \notin DOMAIN s

\* s.delete(fullKey) in tx(): the request fails only on a storage error.
deleteFails(fault, s, fullKey) == fault

\* The caller calls set(key, value, { ttl }) on engine ns.
CallSet(ns, key, value, ttl) ==
    /\ started < MaxOps
    /\ SomeFree
    /\ tasks' = [tasks EXCEPT ![Slot] = SetTask(ns, key, value, ttl, "caller")]
    /\ started' = started + 1
    /\ UNCHANGED <<now, engineVars, jobs, stats, faults, revalidating,
                   policyVars,
                   listenerVars, written>>

\* set(): putRaw takes effect.
SetPutRaw(t) ==
    /\ tasks[t].op = "set"
    /\ tasks[t].pc = "putRaw"
    /\ store' = putRaw(store, tasks[t].ns, tasks[t].key, tasks[t].entry)
    /\ tasks' = [tasks EXCEPT ![t] = AfterPutRaw(tasks[t])]
    /\ UNCHANGED <<now, enableSync, channel, enableStats, evictions, last,
                   jobs, stats, started, faults, revalidating, policyVars,
                   listenerVars, written>>

\* evict(): getAllEntries() returns the snapshot.  Under maxSize, or with
\* no key to evict, evict() returns and set() goes on to its end.
EvictGetAllEntries(t) ==
    /\ tasks[t].op = "set"
    /\ tasks[t].pc = "getAllEntries"
    /\ \E keys \in {keysToEvict(store)} :
          IF keys = <<>>
          THEN /\ tasks' = [tasks EXCEPT ![t] = SetReturns(tasks[t])]
               /\ stats' = Counted(tasks[t].ns, "sets")
               /\ jobs' = updateStats(tasks[t].ns)
               /\ channel' = Broadcast(tasks[t], "set")
          ELSE /\ tasks' = [tasks EXCEPT ![t].keysToEvict = keys,
                                         ![t].i = 1,
                                         ![t].pc = "deleteRaw"]
               /\ UNCHANGED <<stats, jobs, channel>>
    /\ UNCHANGED <<now, store, enableSync, enableStats, evictions,
                   last, started, faults, revalidating, policyVars,
                   listenerVars, written>>

\* evict(): deleteRaw(parseKey(key, ns)) of the next key takes effect or
\* fails.  After the last key the 'evict' event is emitted and set() goes
\* on to its end; a failure is thrown out of evict() into the catch of set().
EvictDeleteRaw(t) ==
    /\ tasks[t].op = "set"
    /\ tasks[t].pc = "deleteRaw"
    /\ LET task == tasks[t]
           fullKey == k(task.ns, parseKey(task.keysToEvict[task.i], task.ns))
           deleted == [task EXCEPT !.i = @ + 1,
                                   !.removed = IF fullKey \in DOMAIN store
                                               THEN Append(@, fullKey) ELSE @]
       IN  \E fault \in IF faults > 0 THEN BOOLEAN ELSE {FALSE} :
              /\ faults' = IF fault THEN faults - 1 ELSE faults
              /\ IF deleteFails(fault, store, fullKey)
                 THEN /\ tasks' = [tasks EXCEPT ![t] = SetRejects(task)]
                      /\ stats' = Counted(task.ns, "errors")
                      /\ UNCHANGED <<store, evictions, jobs, channel>>
                 ELSE /\ store' = Delete(store, fullKey)
                      /\ evictions' = IF enableStats
                                      THEN [evictions EXCEPT ![task.ns] = @ + 1]
                                      ELSE evictions
                      /\ IF task.i < Len(task.keysToEvict)
                         THEN /\ tasks' = [tasks EXCEPT ![t] = deleted]
                              /\ UNCHANGED <<stats, jobs, channel>>
                         ELSE /\ tasks' = [tasks EXCEPT ![t] = SetReturns(
                                    [deleted EXCEPT !.emitted =
                                        Append(@, EvictEvent(task.keysToEvict))])]
                              /\ stats' = Counted(task.ns, "sets")
                              /\ jobs' = updateStats(task.ns)
                              /\ channel' = Broadcast(task, "set")
    /\ UNCHANGED <<now, enableSync, enableStats, last, started,
                   revalidating, policyVars,
                   listenerVars, written>>

\* updateStats(): `await this.size()` returns the sum over the whole store.
UpdateStatsSize(j) ==
    /\ j \in jobs
    /\ j.pc = "size"
    /\ jobs' = (jobs \ {j})
               \cup {[j EXCEPT !.pc = "count",
                               !.size = SumSize(getAllEntries(store))]}
    /\ UNCHANGED <<now, engineVars, tasks, stats, started, faults,
                   revalidating, policyVars,
                   listenerVars, written>>

\* updateStats(): `await this.count()` returns, and the fields are assigned.
UpdateStatsCount(j) ==
    /\ j \in jobs
    /\ j.pc = "count"
    /\ jobs' = jobs \ {j}
    /\ stats' = [stats EXCEPT ![j.ns].totalSize = j.size,
                              ![j.ns].entryCount = Cardinality(DOMAIN store)]
    /\ UNCHANGED <<now, engineVars, tasks, started, faults, revalidating,
                   policyVars,
                   listenerVars, written>>

\* The keys an eviction pass in flight has still to delete.
ToDelete(task) ==
    {k(task.ns, parseKey(task.keysToEvict[n], task.ns)) :
        n \in task.i..Len(task.keysToEvict)}

\* An engine of another tab on the same database removes a stored key
\* that a pass of this tab was told to evict and has not yet deleted.
OtherTabRemove(fullKey) ==
    /\ fullKey \in DOMAIN store
    /\ \E t \in TaskIds :
          /\ tasks[t].op = "set"
          /\ tasks[t].pc = "deleteRaw"
          /\ fullKey \in ToDelete(tasks[t])
    /\ store' = Delete(store, fullKey)
    /\ UNCHANGED <<now, enableSync, channel, enableStats, evictions, last,
                   taskVars, policyVars,
                   listenerVars, written>>

\* Two engines with statistics on, whose store may raise an error.
InitWrites ==
    /\ NoListeners
    /\ written = {}
    /\ now = 1
    /\ store = <<>>
    /\ enableSync = FALSE
    /\ channel = {}
    /\ enableStats = TRUE
    /\ evictions = [ns \in Namespaces |-> 0]
    /\ last = <<"new", <<>>>>
    /\ pStrategy = "lru"
    /\ pEntries = <<>>
    /\ pMaxSize = 0
    /\ pCurrentSize = 0
    /\ pCalls = 0
    /\ pResult = <<>>
    /\ pEvalAt = 0
    /\ pFirst = <<>>
    /\ pFirstAt = 0
    /\ tasks = [t \in TaskIds |-> IdleTask]
    /\ jobs = {}
    /\ stats = [ns \in Namespaces |-> NewStats]
    /\ started = 0
    /\ faults \in 0..MaxFaults
    /\ revalidating = {}

\* The caller awaits each call before the next.
Sequential == \A t \in TaskIds : Free(t)

NextWrites ==
    \/ \E ns \in Namespaces, key \in Keys, value \in Values :
          Sequential /\ CallSet(ns, key, value, Undefined)
    \/ \E t \in TaskIds : SetPutRaw(t)
    \/ \E t \in TaskIds : EvictGetAllEntries(t)
    \/ \E t \in TaskIds : EvictDeleteRaw(t)
    \/ \E j \in jobs : UpdateStatsSize(j)
    \/ \E j \in jobs : UpdateStatsCount(j)
    \/ \E fullKey \in DOMAIN store : OtherTabRemove(fullKey)
    \/ Tick

SpecWrites == InitWrites /\ [][NextWrites]_vars

\* get() that returns a value: the 'hit' and 'get' events, and the promise
\* resolves with the value of the local entry.
GetReturns(task) ==
    [task EXCEPT !.emitted = @ \o <<Event("hit", task.key), Event("get", task.key)>>,
                 !.pc = "resolved", !.result = task.entry.value]

\* get() that returns null after emitting the event of that name.
GetReturnsNull(task, name) ==
    [task EXCEPT !.emitted = Append(@, Event(name, task.key)),
                 !.pc = "resolved", !.result = "null"]

\* set() of the revalidated value with no ttl option.
RevalidatedSet_NoTTL(r, value) == SetTask(r.ns, r.key, value, Undefined, "revalidate")

\* revalidate().then((v) => this.set(key, v, { ttl: opt.ttlOnRevalidate }))
RevalidatedSet(r, value) == SetTask(r.ns, r.key, value, r.ttl, "revalidate")

\* The caller calls get(key, opt) on engine ns, with staleWhileRevalidate
\* and a revalidate callback or with neither.
CallGet(ns, key, swr, ttlOnRevalidate) ==
    /\ started < MaxOps
    /\ SomeFree
    /\ tasks' = [tasks EXCEPT ![Slot] =
                    [IdleTask EXCEPT !.op = "get", !.ns = ns, !.key = key,
                                     !.pc = "getRaw", !.swr = swr,
                                     !.ttlOnRevalidate = ttlOnRevalidate]]
    /\ started' = started + 1
    /\ UNCHANGED <<now, engineVars, jobs, stats, faults, revalidating,
                   policyVars,
                   listenerVars, written>>

\* get(): getRaw returns.  No entry is a miss; an entry that is not
\* expired is written back with its access time and count; an expired one
\* is returned stale while revalidate() runs, or is deleted.
GetGetRaw(t) ==
    /\ tasks[t].op = "get"
    /\ tasks[t].pc = "getRaw"
    /\ LET task == tasks[t]
           fullKey == k(task.ns, task.key)
       IN  IF fullKey \notin DOMAIN store
           THEN /\ tasks' = [tasks EXCEPT ![t] = GetReturnsNull(task, "miss")]
                /\ stats' = Counted(task.ns, "misses")
                /\ jobs' = updateStats(task.ns)
                /\ UNCHANGED revalidating
           ELSE LET entry == store[fullKey]
                    expired == isExpired(entry.expiresAt)
                    read == [task EXCEPT !.entry = entry, !.now = now,
                                         !.expired = expired]
                IN  IF ~expired
                    THEN /\ tasks' = [tasks EXCEPT ![t] =
                              [read EXCEPT !.entry.lastAccessed = now,
                                           !.entry.accessCount = OrZero(@) + 1,
                                           !.pc = "putRaw"]]
                         /\ UNCHANGED <<stats, jobs, revalidating>>
                    ELSE IF task.swr
                    THEN /\ revalidating' = revalidating
                              \cup {[ns |-> task.ns, key |-> task.key,
                                     ttl |-> task.ttlOnRevalidate]}
                         /\ tasks' = [tasks EXCEPT ![t] = GetReturns(read)]
                         /\ stats' = Counted(task.ns, "hits")
                         /\ jobs' = updateStats(task.ns)
                    ELSE /\ tasks' = [tasks EXCEPT ![t] =
                              [read EXCEPT !.pc = "deleteRaw"]]
                         /\ UNCHANGED <<stats, jobs, revalidating>>
    /\ UNCHANGED <<now, engineVars, started, faults, policyVars,
                   listenerVars, written>>

\* get(): putRaw of the touched entry takes effect, and the value is
\* returned.
GetPutRaw(t) ==
    /\ tasks[t].op = "get"
    /\ tasks[t].pc = "putRaw"
    /\ store' = putRaw(store, tasks[t].ns, tasks[t].key, tasks[t].entry)
    /\ tasks' = [tasks EXCEPT ![t] = GetReturns(tasks[t])]
    /\ stats' = Counted(tasks[t].ns, "hits")
    /\ jobs' = updateStats(tasks[t].ns)
    /\ UNCHANGED <<now, enableSync, channel, enableStats, evictions, last,
                   started, faults, revalidating, policyVars,
                   listenerVars, written>>

\* get(): deleteRaw of the expired entry takes effect, 'expire' is emitted,
\* the miss is counted and null is returned.
GetDeleteRaw(t) ==
    /\ tasks[t].op = "get"
    /\ tasks[t].pc = "deleteRaw"
    /\ store' = deleteRaw(store, tasks[t].ns, tasks[t].key)
    /\ tasks' = [tasks EXCEPT ![t] = GetReturnsNull(tasks[t], "expire")]
    /\ stats' = Counted(tasks[t].ns, "misses")
    /\ jobs' = updateStats(tasks[t].ns)
    /\ UNCHANGED <<now, enableSync, channel, enableStats, evictions, last,
                   started, faults, revalidating, policyVars,
                   listenerVars, written>>

\* The promise of revalidate() resolves with a value, and its callback
\* calls set().
RevalidateResolves(r, value) ==
    /\ r \in revalidating
    /\ SomeFree
    /\ revalidating' = revalidating \ {r}
    /\ tasks' = [tasks EXCEPT ![Slot] =
                    [RevalidatedSet(r, value) EXCEPT !.ttlOnRevalidate = r.ttl]]
    /\ UNCHANGED <<now, engineVars, jobs, stats, started, faults, policyVars,
                   listenerVars, written>>

\* The ttl options of the calls that read: none, or one tick of the clock.
ReadTTLs == {Undefined, 1}

\* The options get() is given: none, or staleWhileRevalidate with a
\* revalidate callback and ttlOnRevalidate or not.
GetOptions ==
    {[swr |-> FALSE, ttl |-> Undefined]}
    \cup {[swr |-> TRUE, ttl |-> ttl] : ttl \in ReadTTLs}

\* The key the caller reads.
ReadKey == <<"x">>

\* The root engine with statistics on and a store that raises no error.
InitReads ==
    /\ NoListeners
    /\ written = {}
    /\ now = 1
    /\ store = <<>>
    /\ enableSync = FALSE
    /\ channel = {}
    /\ enableStats = TRUE
    /\ evictions = [ns \in Namespaces |-> 0]
    /\ last = <<"new", <<>>>>
    /\ pStrategy = "lru"
    /\ pEntries = <<>>
    /\ pMaxSize = 0
    /\ pCurrentSize = 0
    /\ pCalls = 0
    /\ pResult = <<>>
    /\ pEvalAt = 0
    /\ pFirst = <<>>
    /\ pFirstAt = 0
    /\ NoCalls

\* A step of a call in flight.
TaskStep(t) ==
    \/ SetPutRaw(t)
    \/ EvictGetAllEntries(t)
    \/ EvictDeleteRaw(t)
    \/ GetGetRaw(t)
    \/ GetPutRaw(t)
    \/ GetDeleteRaw(t)

NextReads ==
    \/ \E key \in Keys, value \in Values, ttl \in ReadTTLs :
          CallSet(Root, key, value, ttl)
    \/ \E opt \in GetOptions : CallGet(Root, ReadKey, opt.swr, opt.ttl)
    \/ \E t \in TaskIds : SetPutRaw(t)
    \/ \E t \in TaskIds : EvictGetAllEntries(t)
    \/ \E t \in TaskIds : EvictDeleteRaw(t)
    \/ \E t \in TaskIds : GetGetRaw(t)
    \/ \E t \in TaskIds : GetPutRaw(t)
    \/ \E t \in TaskIds : GetDeleteRaw(t)
    \/ \E r \in revalidating, value \in Values : RevalidateResolves(r, value)
    \/ \E j \in jobs : UpdateStatsSize(j)
    \/ \E j \in jobs : UpdateStatsCount(j)
    \/ Tick

SpecReads == InitReads /\ [][NextReads]_vars

\* The root engine with statistics off, so that no updateStats() runs,
\* whose callers give every entry a ttl.
InitStale ==
    /\ NoListeners
    /\ written = {}
    /\ now = 1
    /\ store = <<>>
    /\ enableSync = FALSE
    /\ channel = {}
    /\ enableStats = FALSE
    /\ evictions = [ns \in Namespaces |-> 0]
    /\ last = <<"new", <<>>>>
    /\ pStrategy = "lru"
    /\ pEntries = <<>>
    /\ pMaxSize = 0
    /\ pCurrentSize = 0
    /\ pCalls = 0
    /\ pResult = <<>>
    /\ pEvalAt = 0
    /\ pFirst = <<>>
    /\ pFirstAt = 0
    /\ NoCalls

NextStale ==
    \/ \E key \in Keys, value \in Values, ttl \in ReadTTLs \ {Undefined} :
          CallSet(Root, key, value, ttl)
    \/ \E opt \in GetOptions : CallGet(Root, ReadKey, opt.swr, opt.ttl)
    \/ \E t \in TaskIds : SetPutRaw(t)
    \/ \E t \in TaskIds : EvictGetAllEntries(t)
    \/ \E t \in TaskIds : EvictDeleteRaw(t)
    \/ \E t \in TaskIds : GetGetRaw(t)
    \/ \E t \in TaskIds : GetPutRaw(t)
    \/ \E t \in TaskIds : GetDeleteRaw(t)
    \/ \E r \in revalidating, value \in Values : RevalidateResolves(r, value)
    \/ Tick

\* The event loop runs every call in flight up to its end: a storage
\* request that was issued completes, and the code after its await runs.
SpecStale ==
    InitStale /\ [][NextStale]_vars /\ \A t \in TaskIds : WF_vars(TaskStep(t))

\* ------------------------------------------- snapshots given to a policy

Sizes == 1..MaxEntrySize

Times == 1..MaxTime

\* The tie-break timestamp of a two-key ordering takes the two earliest times.
TieTimes == 1..2

Counts == {Undefined} \cup 0..MaxCount

Priorities == {Undefined} \cup 0..MaxPriority

Expiries == {Undefined} \cup Times

\* The entries a snapshot for strategy may hold: the fields the strategy's
\* policy reads range over their sets, the others keep the value set() gives.
\* fifo reads neither lastAccessed nor accessCount: its entries are either
\* never read again or read once more, later.
EntriesFor(strategy) ==
    LET Mk(sz, cr, la, ac, ex, pr) ==
            [size |-> sz, createdAt |-> cr, lastAccessed |-> la,
             accessCount |-> ac, expiresAt |-> ex, priority |-> pr]
    IN  CASE strategy = "lfu" ->
               {Mk(sz, 1, la, ac, Undefined, Undefined) :
                   sz \in Sizes, la \in TieTimes, ac \in Counts}
          [] strategy = "arc" ->
               {Mk(sz, 1, la, ac, Undefined, Undefined) :
                   sz \in Sizes, la \in TieTimes, ac \in Counts}
          [] strategy = "fifo" ->
               {Mk(sz, cr, u + 1, u, Undefined, Undefined) :
                   sz \in Sizes, cr \in Times, u \in 0..1}
          [] strategy = "priority" ->
               {Mk(sz, 1, la, 0, Undefined, pr) :
                   sz \in Sizes, la \in TieTimes, pr \in Priorities}
          [] strategy = "ttl" ->
               {Mk(sz, 1, 1, 0, ex, Undefined) : sz \in Sizes, ex \in Expiries}
          [] strategy = "size" ->
               {Mk(sz, 1, 1, 0, Undefined, Undefined) : sz \in Sizes}
          [] OTHER ->
               {Mk(sz, 1, la, 0, Undefined, Undefined) :
                   sz \in Sizes, la \in Times}

\* The key of the i-th item of a snapshot.
KeyName(i) == <<"k", ToString(i)>>

Snapshots(strategy) ==
    UNION {{[i \in 1..n |-> [key |-> KeyName(i), entry |-> f[i]]] :
               f \in [1..n -> EntriesFor(strategy)]} : n \in 0..MaxEntries}

\* The lru scenario: three entries of 50, 30 and 20 bytes, the 50 the
\* oldest, the 20 next, the 30 the newest, maxSize 60, currentSize 100.
LRUScenario ==
    LET Mk(sz, la) ==
            [size |-> sz, createdAt |-> 1, lastAccessed |-> la,
             accessCount |-> 0, expiresAt |-> Undefined, priority |-> Undefined]
    IN  [entries |-> <<[key |-> KeyName(1), entry |-> Mk(50, 1)],
                       [key |-> KeyName(2), entry |-> Mk(30, 3)],
                       [key |-> KeyName(3), entry |-> Mk(20, 2)]>>,
         maxSize |-> 60,
         currentSize |-> 100]

NotCalled == <<"not called">>

\* Only the ttl policy reads the clock: the others are first called at time 1.
InitPolicy ==
    /\ NoListeners
    /\ written = {}
    /\ pStrategy \in Strategies \cup {"custom"}
    /\ now \in IF pStrategy = "ttl" THEN Times ELSE {1}
    /\ \/ /\ pEntries \in Snapshots(pStrategy)
          /\ pMaxSize \in 0..MaxBudget
          /\ pCurrentSize \in {SumSize(pEntries), SumSize(pEntries) + 1}
       \/ /\ pStrategy = "lru"
          /\ pEntries = LRUScenario.entries
          /\ pMaxSize = LRUScenario.maxSize
          /\ pCurrentSize = LRUScenario.currentSize
    /\ pCalls = 0
    /\ pResult = NotCalled
    /\ pEvalAt = 0
    /\ pFirst = NotCalled
    /\ pFirstAt = 0
    /\ NoCalls
    /\ store = <<>>
    /\ enableSync = FALSE
    /\ channel = {}
    /\ enableStats = TRUE
    /\ evictions = [ns \in Namespaces |-> 0]
    /\ last = <<"new", <<>>>>

\* One call of shouldEvict on the policy createEvictionPolicy returned.
Evaluate ==
    /\ pCalls < MaxCalls
    /\ pResult' = shouldEvict(createEvictionPolicy(pStrategy), pEntries,
                              pMaxSize, pCurrentSize)
    /\ pFirst' = IF pCalls = 0 THEN pResult' ELSE pFirst
    /\ pFirstAt' = IF pCalls = 0 THEN now ELSE pFirstAt
    /\ pEvalAt' = now
    /\ pCalls' = pCalls + 1
    /\ pEntries' = EntriesAfter(createEvictionPolicy(pStrategy), pEntries,
                                pMaxSize, pCurrentSize)
    /\ UNCHANGED <<now, pStrategy, pMaxSize, pCurrentSize, engineVars, taskVars,
                   listenerVars, written>>

\* Time passes between two calls.
TimePasses ==
    /\ now < MaxTime
    /\ pCalls >= 1
    /\ pCalls < MaxCalls
    /\ now' = now + 1
    /\ UNCHANGED <<policyVars, engineVars, taskVars,
                   listenerVars, written>>

NextPolicy == Evaluate \/ TimePasses

SpecPolicy == InitPolicy /\ [][NextPolicy]_vars

\* ------------------------------------------------ claims on the policies

Called == pCalls >= 1

Class == createEvictionPolicy(pStrategy)

Deficit == pCurrentSize - pMaxSize

\* The snapshot item a returned key names.
ItemOf(rk) == CHOOSE e \in {pEntries[i] : i \in 1..Len(pEntries)} : e.key = rk

\* The size the first n returned keys free.
FreedBy(n) == SumSize([i \in 1..n |-> ItemOf(pResult[i])])

Items == {pEntries[i] : i \in 1..Len(pEntries)}

Returned == {pResult[i] : i \in 1..Len(pResult)}

ExpiredItems == {e \in Items : ExpiredAt(e, pEvalAt)}

\* The snapshot items that carry an expiresAt.
TTLItems == {e \in Items : e.entry.expiresAt # Undefined}

RECURSIVE SetSize(_)
SetSize(S) == IF S = {} THEN 0
              ELSE LET e == CHOOSE x \in S : TRUE
                   IN  e.entry.size + SetSize(S \ {e})

Min(a, b) == IF a <= b THEN a ELSE b

\* C1: every policy returns the empty list when currentSize <= maxSize,
\* for every snapshot, the empty one included.
C1_UnderBudgetReturnsEmpty ==
    (Called /\ pCurrentSize <= pMaxSize) => pResult = <<>>

\* C1 witness: the ttl policy was called under budget on a snapshot that
\* holds an entry already expired, and returned nothing.
C1_Witness ==
    /\ Called /\ pCurrentSize <= pMaxSize
    /\ pStrategy = "ttl"
    /\ ExpiredItems # {}
    /\ pResult = <<>>

\* C2 as stated: over budget with currentSize the sum of the snapshot's
\* sizes, the keys any policy returns free at least the deficit.
C2_Original ==
    (/\ Called /\ pEntries # <<>>
     /\ pCurrentSize > pMaxSize
     /\ pCurrentSize = SumSize(pEntries))
    => FreedBy(Len(pResult)) >= Deficit

\* C2 amended: every policy but ttl frees at least the deficit; ttl frees
\* at least the deficit or, when the entries that carry an expiresAt are
\* smaller than it, the whole size of those entries.
C2_FreesDeficit ==
    (/\ Called /\ pEntries # <<>>
     /\ pCurrentSize > pMaxSize
     /\ pCurrentSize = SumSize(pEntries))
    => IF Class = "TTL"
       THEN FreedBy(Len(pResult)) >= Min(Deficit, SetSize(TTLItems))
       ELSE FreedBy(Len(pResult)) >= Deficit

\* C2 witness: ttl returned the two entries that carry an expiresAt and
\* kept the third, which carries none, though the two free less than the
\* deficit.
C2_Witness ==
    /\ Called /\ pCurrentSize > pMaxSize
    /\ pCurrentSize = SumSize(pEntries)
    /\ Class = "TTL"
    /\ Len(pResult) = 2 /\ Len(pEntries) = 3
    /\ FreedBy(Len(pResult)) = SetSize(TTLItems)
    /\ FreedBy(Len(pResult)) < Deficit

\* C3 as stated: over budget, every proper prefix of the list any policy
\* returns frees strictly less than the deficit.
C3_Original ==
    (Called /\ pCurrentSize > pMaxSize)
    => \A n \in 0..(Len(pResult) - 1) : FreedBy(n) < Deficit

\* C3 amended: that holds of every policy but ttl; of ttl it holds of the
\* proper prefixes that hold every expired entry, since ttl returns all the
\* expired entries whatever they free.
C3_StopsAtTarget ==
    (Called /\ pCurrentSize > pMaxSize)
    => \A n \in 0..(Len(pResult) - 1) :
          (Class = "TTL" => n >= Cardinality(ExpiredItems))
          => FreedBy(n) < Deficit

\* C3 witness: ttl returned its one expired entry, which frees too little,
\* then one entry not expired that meets the target, and kept the third.
C3_Witness ==
    /\ Called /\ pCurrentSize > pMaxSize
    /\ Class = "TTL"
    /\ Cardinality(ExpiredItems) = 1
    /\ Len(pResult) = 2 /\ Len(pEntries) = 3
    /\ FreedBy(1) < Deficit
    /\ FreedBy(2) >= Deficit

\* C4 as stated: a second call with the same snapshot and bounds returns
\* what the first returned, whatever time passed between them.
C4_Original ==
    pCalls >= 2 => pResult = pFirst

\* C4 amended: that holds of every policy but ttl, which reads the clock;
\* ttl returns the same list when the clock reads the same at both calls.
C4_Deterministic ==
    (pCalls >= 2 /\ (Class = "TTL" => pEvalAt = pFirstAt))
    => pResult = pFirst

\* C4 witness: time passed between two calls that returned the same
\* non-empty list.
C4_Witness ==
    /\ pCalls >= 2
    /\ pEvalAt > pFirstAt
    /\ Class = "ARC"
    /\ Len(pResult) = 2
    /\ pResult = pFirst

\* C9: ttl, over budget: every entry expired at evaluation time is
\* returned, whatever it frees, and precedes every returned entry that is
\* not expired.
C9_ExpiredFirst ==
    (Called /\ Class = "TTL" /\ pCurrentSize > pMaxSize)
    => /\ \A e \in ExpiredItems : e.key \in Returned
       /\ \A i, j \in 1..Len(pResult) :
             (/\ ItemOf(pResult[i]) \notin ExpiredItems
              /\ ItemOf(pResult[j]) \in ExpiredItems) => j < i

\* C9 witness: two expired entries were returned though the first alone
\* met the target, and an entry not expired was kept.
C9_Witness ==
    /\ Called /\ Class = "TTL" /\ pCurrentSize > pMaxSize
    /\ Cardinality(ExpiredItems) = 2
    /\ Len(pEntries) = 3
    /\ Len(pResult) = 2
    /\ FreedBy(1) >= Deficit

\* The returned keys of entries not expired at evaluation time, in order.
NotExpiredReturned ==
    LET Fresh(rk) == ItemOf(rk) \notin ExpiredItems
    IN  SelectSeq(pResult, Fresh)

\* The snapshot items that carry an expiresAt and are not expired.
FreshTTLItems == {e \in Items : Truthy(e.entry.expiresAt)} \ ExpiredItems

\* C10: ttl, over budget: entries not expired are returned only if the
\* expired ones free less than the deficit; those returned carry an
\* expiresAt, come in ascending expiresAt order before any other entry
\* that carries one, and stop as soon as they cover the rest of the
\* deficit, or are all of them.
C10_PhaseTwo ==
    (Called /\ Class = "TTL" /\ pCurrentSize > pMaxSize)
    => LET fresh == NotExpiredReturned
           rest == Deficit - SetSize(ExpiredItems)
           Freed(n) == SumSize([i \in 1..n |-> ItemOf(fresh[i])])
       IN  /\ fresh # <<>> => rest > 0
           /\ \A i \in 1..Len(fresh) :
                 ItemOf(fresh[i]).entry.expiresAt # Undefined
           /\ \A i, j \in 1..Len(fresh) :
                 i < j => ItemOf(fresh[i]).entry.expiresAt
                          <= ItemOf(fresh[j]).entry.expiresAt
           /\ \A i \in 1..Len(fresh) :
                 \A e \in FreshTTLItems :
                    e.key \notin Returned
                    => ItemOf(fresh[i]).entry.expiresAt <= e.entry.expiresAt
           /\ \A n \in 0..(Len(fresh) - 1) : Freed(n) < rest
           /\ rest > 0 =>
                 \/ Freed(Len(fresh)) >= rest
                 \/ \A e \in FreshTTLItems : e.key \in Returned

\* C10 witness: after an expired entry that frees too little, the entry
\* expiring sooner was returned and the one expiring later kept, against
\* their order in the snapshot.
C10_Witness ==
    /\ Called /\ Class = "TTL" /\ pCurrentSize > pMaxSize
    /\ Len(pEntries) = 3 /\ Len(pResult) = 2
    /\ Cardinality(ExpiredItems) = 1
    /\ \E i, j \in 1..3 :
          /\ i < j
          /\ pEntries[i] \in FreshTTLItems /\ pEntries[j] \in FreshTTLItems
          /\ pEntries[j].entry.expiresAt < pEntries[i].entry.expiresAt
          /\ pEntries[j].key \in Returned
          /\ pEntries[i].key \notin Returned

\* C11: the ttl policy never returns the key of an entry that has no
\* expiresAt, whatever the snapshot and bounds, even when the keys it
\* returns free less than the deficit.
C11_NoTTLNeverReturned ==
    (Called /\ Class = "TTL")
    => \A i \in 1..Len(pResult) :
          ItemOf(pResult[i]).entry.expiresAt # Undefined

\* C11 witness: ttl returned the one entry that carries an expiresAt and
\* kept two entries that carry none, though the deficit is not covered.
C11_Witness ==
    /\ Called /\ Class = "TTL" /\ pCurrentSize > pMaxSize
    /\ Len(pEntries) = 3 /\ Len(pResult) = 1
    /\ Cardinality({i \in 1..3 : pEntries[i].entry.expiresAt = Undefined}) = 2
    /\ FreedBy(Len(pResult)) < Deficit

\* No two entries of the snapshot have the same lastAccessed.
DistinctLastAccessed ==
    \A i, j \in 1..Len(pEntries) :
       i # j => pEntries[i].entry.lastAccessed # pEntries[j].entry.lastAccessed

\* The returned list stops as soon as it covers the deficit: every proper
\* prefix frees less than the deficit and the whole list covers it.
ShortestCover ==
    /\ \A n \in 0..(Len(pResult) - 1) : FreedBy(n) < Deficit
    /\ FreedBy(Len(pResult)) >= Deficit

\* The snapshot holds enough to cover the deficit.
Coverable == SumSize(pEntries) >= Deficit

\* The lru policy was called on the lru scenario.
OnLRUScenario ==
    /\ Called /\ Class = "LRU"
    /\ pEntries = LRUScenario.entries
    /\ pMaxSize = LRUScenario.maxSize
    /\ pCurrentSize = LRUScenario.currentSize

\* lru, distinct lastAccessed, over budget: the returned keys are in
\* ascending lastAccessed order, every entry kept was accessed later than
\* every entry returned, and the list is the shortest that covers the deficit.
LRUShortestOldestPrefix ==
    (/\ Called /\ Class = "LRU" /\ pCurrentSize > pMaxSize
     /\ DistinctLastAccessed /\ Coverable)
    => /\ \A i, j \in 1..Len(pResult) :
             i < j => ItemOf(pResult[i]).entry.lastAccessed
                      < ItemOf(pResult[j]).entry.lastAccessed
       /\ \A e \in Items : \A i \in 1..Len(pResult) :
             e.key \notin Returned
             => ItemOf(pResult[i]).entry.lastAccessed < e.entry.lastAccessed
       /\ ShortestCover

\* C12 as stated: lru returns the shortest oldest-first prefix that covers
\* the deficit, and on the scenario [50, 30, 20], maxSize 60, currentSize
\* 100 it returns the 50 entry then the 20 entry.
C12_Original ==
    /\ LRUShortestOldestPrefix
    /\ OnLRUScenario => pResult = <<KeyName(1), KeyName(3)>>

\* C12 amended: lru returns the shortest oldest-first prefix that covers
\* the deficit; on the scenario that prefix is the 50 entry alone, which
\* covers the deficit of 40.
C12_LRUOrder ==
    /\ LRUShortestOldestPrefix
    /\ OnLRUScenario => pResult = <<KeyName(1)>>

\* C12 witness: lru returned the last entry of the snapshot, the oldest,
\* then the first, and kept the newest, the second.
C12_Witness ==
    /\ Called /\ Class = "LRU" /\ pCurrentSize > pMaxSize
    /\ DistinctLastAccessed /\ Coverable
    /\ Len(pEntries) = 3
    /\ pResult = <<KeyName(3), KeyName(1)>>

\* The snapshot items that are not among the first n returned keys: those
\* returned later and those kept.
NotAmongFirst(n) == {e \in Items : e.key \notin {pResult[j] : j \in 1..n}}

\* accessCount with a missing value counted as 0.
CountOf(e) == IF e.entry.accessCount = Undefined THEN 0 ELSE e.entry.accessCount

\* C13: lfu: every returned entry has an accessCount (missing counts as 0)
\* no greater than that of every entry returned after it or kept, and, of
\* those with the same accessCount, a lastAccessed no greater.
C13_LFUOrder ==
    (Called /\ Class = "LFU")
    => \A i \in 1..Len(pResult) : \A e \in NotAmongFirst(i) :
          LET r == ItemOf(pResult[i])
          IN  /\ CountOf(r) <= CountOf(e)
              /\ CountOf(r) = CountOf(e)
                 => r.entry.lastAccessed <= e.entry.lastAccessed

\* C13 witness: lfu returned the second entry then the first, one with no
\* accessCount and one with accessCount 0, the earlier accessed first, and
\* kept the third, which was used more.
C13_Witness ==
    /\ Called /\ Class = "LFU"
    /\ Len(pEntries) = 3
    /\ pResult = <<KeyName(2), KeyName(1)>>
    /\ pEntries[1].entry.accessCount = 0
    /\ pEntries[2].entry.accessCount = Undefined
    /\ pEntries[2].entry.lastAccessed < pEntries[1].entry.lastAccessed
    /\ CountOf(pEntries[3]) > 0

\* priority with a missing value counted as 0.
PriorityOf(e) == IF e.entry.priority = Undefined THEN 0 ELSE e.entry.priority

\* C14: priority: every returned entry has a priority (missing counts as
\* 0) no greater than that of every entry returned after it or kept, and,
\* of those with the same priority, a lastAccessed no greater; and no entry
\* is returned when an entry of strictly lower priority covers the deficit
\* alone.
C14_PriorityOrder ==
    (Called /\ Class = "Priority")
    => /\ \A i \in 1..Len(pResult) : \A e \in NotAmongFirst(i) :
             LET r == ItemOf(pResult[i])
             IN  /\ PriorityOf(r) <= PriorityOf(e)
                 /\ PriorityOf(r) = PriorityOf(e)
                    => r.entry.lastAccessed <= e.entry.lastAccessed
       /\ \A low, high \in Items :
             (/\ PriorityOf(low) < PriorityOf(high)
              /\ low.entry.size >= Deficit)
             => high.key \notin Returned

\* C14 witness: the first entry has the higher priority and is kept; the
\* third, of priority 0, is returned before the second, of no priority and
\* accessed later, which covers the deficit alone.
C14_Witness ==
    /\ Called /\ Class = "Priority" /\ pCurrentSize > pMaxSize
    /\ Len(pEntries) = 3
    /\ pResult = <<KeyName(3), KeyName(2)>>
    /\ PriorityOf(pEntries[1]) > 0
    /\ pEntries[2].entry.priority = Undefined
    /\ pEntries[3].entry.priority = 0
    /\ pEntries[3].entry.lastAccessed < pEntries[2].entry.lastAccessed
    /\ pEntries[2].entry.size >= Deficit

\* C15: arc: every returned entry with accessCount <= 1 (missing counts
\* as 0) precedes every returned entry with accessCount > 1; an entry with
\* accessCount > 1 is returned only if every entry with accessCount <= 1
\* is; the returned entries of the first group are in ascending
\* lastAccessed order, those of the second in ascending accessCount order.
C15_ARCOrder ==
    (Called /\ Class = "ARC")
    => /\ \A i, j \in 1..Len(pResult) :
             (/\ CountOf(ItemOf(pResult[i])) <= 1
              /\ CountOf(ItemOf(pResult[j])) > 1) => i < j
       /\ (\E i \in 1..Len(pResult) : CountOf(ItemOf(pResult[i])) > 1)
          => \A e \in Items : CountOf(e) <= 1 => e.key \in Returned
       /\ \A i, j \in 1..Len(pResult) :
             LET a == ItemOf(pResult[i])
                 b == ItemOf(pResult[j])
             IN  /\ (i < j /\ CountOf(a) <= 1 /\ CountOf(b) <= 1)
                    => a.entry.lastAccessed <= b.entry.lastAccessed
                 /\ (i < j /\ CountOf(a) > 1 /\ CountOf(b) > 1)
                    => CountOf(a) <= CountOf(b)

\* C15 witness: arc returned the third entry, used at most once, then the
\* second and the first, both used more than once, the less used first.
C15_Witness ==
    /\ Called /\ Class = "ARC"
    /\ Len(pEntries) = 3
    /\ pResult = <<KeyName(3), KeyName(2), KeyName(1)>>
    /\ CountOf(pEntries[3]) <= 1
    /\ CountOf(pEntries[2]) > 1
    /\ CountOf(pEntries[1]) > CountOf(pEntries[2])

\* The position of a snapshot item in the snapshot.
IndexOf(e) == CHOOSE i \in 1..Len(pEntries) : pEntries[i] = e

C18_UnknownIsLRU ==
    (Called /\ pStrategy \notin Strategies)
    => /\ createEvictionPolicy(pStrategy) = createEvictionPolicy("lru")
       /\ pResult = LRUShouldEvict(pEntries, pMaxSize, pCurrentSize)

\* C18 witness: the policy made for an unknown identifier returned the
\* third entry then the first, the two least recently accessed, oldest
\* first, against their order in the snapshot.
C18_Witness ==
    /\ Called /\ pStrategy \notin Strategies
    /\ Len(pEntries) = 3
    /\ pResult = <<KeyName(3), KeyName(1)>>
    /\ pEntries[3].entry.lastAccessed < pEntries[1].entry.lastAccessed
    /\ pEntries[1].entry.lastAccessed < pEntries[2].entry.lastAccessed

\* C19: a call of shouldEvict, on any policy, leaves the snapshot it was
\* given as it was: the same entries in the same order, each with the same
\* field values.
C19_InputUntouched ==
    [][pCalls' = pCalls + 1 => pEntries' = pEntries]_vars

\* C19 witness: lru returned the three entries in the reverse of their
\* snapshot order, and the snapshot still holds them in its own order.
C19_Witness ==
    /\ Called /\ Class = "LRU"
    /\ Len(pEntries) = 3
    /\ pResult = <<KeyName(3), KeyName(2), KeyName(1)>>
    /\ \A i \in 1..3 : pEntries[i].key = KeyName(i)

\* ------------------------------------------------- claims on the engines

\* The sum of size over the entries of the object store.
StoreSize == SumSize(getAllEntries(store))

\* The full key is stored under namespace ns: it carries the prefix ns + ":".
Under(ns, fullKey) == StartsWith(fullKey, ns \o <<":">>)

Named == Namespaces \ {<<>>}

\* A step that is a whole set() or setBlob() call on engine ns.
Writes(ns, key, size, ttl) == Set(ns, key, size, ttl) \/ SetBlob(ns, key, size, ttl)

\* C5: with the lru strategy the entries of the store never sum to more
\* than maxSize once a set or setBlob has completed, whatever sequence of
\* set, setBlob, get and remove ran, on the root engine or a namespaced one.
C5_StoreWithinMaxSize == StoreSize <= ConfigMaxSize

\* C6: the eviction pass a write triggers deletes exactly the keys the
\* policy returned: of the entries in the store when the pass took its
\* snapshot, those returned are gone after it and the others are still there.
C6_EvictsExactlyReturned ==
    [][\A ns \in Namespaces, key \in Keys, size \in 1..MaxEntrySize, ttl \in TTLs :
          Writes(ns, key, size, ttl)
          => LET put == putRaw(store, ns, key, NewEntry(size, ttl))
                 returned == {keysToEvict(put)[i] : i \in 1..Len(keysToEvict(put))}
             IN  \A f \in DOMAIN put : f \in returned <=> f \notin DOMAIN store'
      ]_vars

\* C7: clear() on a namespaced engine leaves every entry that is not stored
\* under its namespace as it was.
C7_ClearKeepsOtherNamespaces ==
    [][\A ns \in Named :
          Clear(ns)
          => \A f \in DOMAIN store :
                ~Under(ns, f) => f \in DOMAIN store' /\ store'[f] = store[f]
      ]_vars

\* A step engine ns causes by set, setBlob, get or remove: the call itself,
\* or another engine handling the sync message the call broadcast.
CausedBy(ns) ==
    \/ \E key \in Keys, size \in 1..MaxEntrySize, ttl \in TTLs :
          Writes(ns, key, size, ttl)
    \/ \E key \in Keys : Get(ns, key) \/ Remove(ns, key)
    \/ \E d \in channel :
          /\ d.msg.source = ns
          /\ d.msg.type \in {"set", "delete"}
          /\ HandleSyncMessage(d)

\* C8: no set, setBlob, get or remove on the engine of a namespace deletes
\* or changes an entry that is not stored under that namespace, be it by
\* the eviction the write triggers or by the sync message it broadcasts.
C8_NamespacesIsolated ==
    [][\A ns \in Named :
          CausedBy(ns)
          => \A f \in DOMAIN store :
                ~Under(ns, f) => f \in DOMAIN store' /\ store'[f] = store[f]
      ]_vars

\* C20: with statistics enabled, an eviction pass adds to stats.evictions
\* of the engine that ran it exactly the number of entries it removed from
\* the store.
C20_EvictionsCountRemovals ==
    [][\A ns \in Namespaces, key \in Keys, size \in 1..MaxEntrySize, ttl \in TTLs :
          (enableStats /\ Writes(ns, key, size, ttl))
          => LET put == putRaw(store, ns, key, NewEntry(size, ttl))
             IN  evictions'[ns] - evictions[ns]
                 = Cardinality(DOMAIN put \ DOMAIN store')
      ]_vars

\* C26: accessCount never decreases: for every key that is in the store
\* both before and after an engine operation (set, setBlob, get, remove or
\* the eviction of other keys), the accessCount stored after the operation
\* is at least the accessCount stored before it.
C26_AccessCountNeverDecreases ==
    [][\A f \in DOMAIN store \cap DOMAIN store' :
          OrZero(store'[f].accessCount) >= OrZero(store[f].accessCount)
      ]_vars

\* C27: under a clock that never goes back, after any sequence of set,
\* setBlob, get, remove and eviction, every stored entry has
\* lastAccessed >= createdAt.
C27_AccessedAfterCreated ==
    \A f \in DOMAIN store : store[f].lastAccessed >= store[f].createdAt

\* A stored entry that a get() touched after the clock advanced.
C27_Witness ==
    \E f \in DOMAIN store :
        /\ store[f].lastAccessed > store[f].createdAt
        /\ OrZero(store[f].accessCount) > 0

\* ------------------------------------------- claims on the calls in flight

\* The set() calls in the slots.
SetCalls == {t \in TaskIds : tasks[t].op = "set"}

\* The 'evict' events a call emitted.
EvictEvents(task) == SelectSeq(task.emitted, LAMBDA e : e.event = "evict")

\* The 'error' events a call emitted.
ErrorEvents(task) == SelectSeq(task.emitted, LAMBDA e : e.event = "error")

\* The returned keys for which the pass of a call has run deleteRaw.
Attempted(task) == IF task.pc = "rejected" THEN task.i ELSE task.i - 1

\* The full key the pass of a call is about to delete.
Target(task) == k(task.ns, parseKey(task.keysToEvict[task.i], task.ns))

\* The position of the first event of that name among those a call emitted.
EmittedAt(task, name) ==
    CHOOSE n \in 1..Len(task.emitted) :
        /\ task.emitted[n].event = name
        /\ \A m \in 1..(n - 1) : task.emitted[m].event # name

\* No call and no updateStats() is in flight.
Quiescent == jobs = {} /\ \A t \in TaskIds : Free(t)

\* C21: a set() whose eviction pass was given keys to evict has emitted,
\* once it is over, exactly one 'evict' event, after the deletions: the
\* keys it lists are evicted, none of them is in the store any more, the
\* keys the pass removed are all listed, and its count is the length of
\* the list; a set() whose pass evicted nothing has emitted no 'evict'
\* event.
C21_EvictEventListsEvicted ==
    \A t \in SetCalls :
        tasks[t].pc = "resolved"
        => IF tasks[t].keysToEvict = <<>>
           THEN EvictEvents(tasks[t]) = <<>>
           ELSE /\ Len(EvictEvents(tasks[t])) = 1
                /\ LET e == EvictEvents(tasks[t])[1]
                   IN  /\ e.count = Len(e.keys)
                       /\ \A n \in 1..Len(e.keys) : e.keys[n] \notin DOMAIN store
                       /\ \A n \in 1..Len(tasks[t].removed) :
                             \E m \in 1..Len(e.keys) : e.keys[m] = tasks[t].removed[n]

\* C22: when the key an eviction pass is about to delete is no longer in
\* the store, the deletion is a no-op: the step raises no error, the store
\* is unchanged and the pass goes on to the next returned key; and a set()
\* that resolved has run deleteRaw for every returned key, which on the
\* root engine leaves none of them in the store.
C22_AbsentKeyIsNoOp ==
    /\ [][\A t \in TaskIds :
             ( /\ tasks[t].op = "set"
               /\ tasks[t].pc = "deleteRaw"
               /\ Target(tasks[t]) \notin DOMAIN store
               /\ tasks'[t] # tasks[t]
               /\ faults' = faults )
             => /\ tasks'[t].pc # "rejected"
                /\ tasks'[t].i = tasks[t].i + 1
                /\ ErrorEvents(tasks'[t]) = <<>>
                /\ stats'[tasks[t].ns].errors = stats[tasks[t].ns].errors
                /\ store' = store
         ]_vars
    /\ [](\A t \in SetCalls :
             tasks[t].pc = "resolved"
             => /\ Attempted(tasks[t]) = Len(tasks[t].keysToEvict)
                /\ tasks[t].ns = Root
                   => \A n \in 1..Len(tasks[t].keysToEvict) :
                         tasks[t].keysToEvict[n] \notin DOMAIN store)

\* A set() on the root engine resolved after a pass over two returned keys,
\* one of which another tab had removed before the pass deleted it.
C22_Witness ==
    \E t \in SetCalls :
        /\ tasks[t].ns = Root
        /\ tasks[t].pc = "resolved"
        /\ Len(tasks[t].keysToEvict) = 2
        /\ Len(tasks[t].removed) = 1
        /\ ErrorEvents(tasks[t]) = <<>>

\* C23: when a deletion of an eviction pass failed with a storage error,
\* the pass has still run deleteRaw for every returned key, and its set()
\* reported one error.
C23_FailedDeleteContinues ==
    \A t \in SetCalls :
        tasks[t].pc = "rejected"
        => /\ Attempted(tasks[t]) = Len(tasks[t].keysToEvict)
           /\ Len(ErrorEvents(tasks[t])) = 1

\* C24: with statistics enabled, once a set() whose eviction pass had keys
\* to delete is over, resolved or rejected, and no call and no
\* updateStats() is in flight, stats.totalSize of its engine is the sum of
\* the sizes in the store and stats.entryCount is the number of entries.
C24_StatsMatchStore ==
    \A t \in SetCalls :
        (enableStats /\ Quiescent /\ tasks[t].keysToEvict # <<>>)
        => /\ stats[tasks[t].ns].totalSize = StoreSize
           /\ stats[tasks[t].ns].entryCount = Cardinality(DOMAIN store)

\* C25: a set() that has emitted its 'set' event or has resolved has its
\* eviction pass behind it: deleteRaw ran for every returned key and, when
\* there were returned keys, the 'evict' event was emitted before 'set'.
C25_SetAfterEviction ==
    \A t \in SetCalls :
        (tasks[t].result = "void"
         \/ \E n \in 1..Len(tasks[t].emitted) : tasks[t].emitted[n].event = "set")
        => /\ tasks[t].pc = "resolved"
           /\ Attempted(tasks[t]) = Len(tasks[t].keysToEvict)
           /\ tasks[t].keysToEvict # <<>>
              => /\ Len(EvictEvents(tasks[t])) = 1
                 /\ EmittedAt(tasks[t], "evict") < EmittedAt(tasks[t], "set")

\* A set() resolved after its pass deleted two keys.
C25_Witness ==
    \E t \in SetCalls :
        /\ tasks[t].pc = "resolved"
        /\ Len(tasks[t].removed) = 2
        /\ tasks[t].emitted
           = <<EvictEvent(tasks[t].keysToEvict), Event("set", tasks[t].key)>>

\* The get() calls in the slots.
GetCalls == {t \in TaskIds : tasks[t].op = "get"}

\* The step in which get() call t writes back the entry it read and
\* returns its value, the entry in the store being the one it read but for
\* the access time and count that other get() calls have written since.
CompletesRead(t) ==
    /\ tasks[t].op = "get"
    /\ tasks[t].pc = "putRaw"
    /\ tasks'[t].pc = "resolved"
    /\ k(tasks[t].ns, tasks[t].key) \in DOMAIN store
    /\ LET stored == store[k(tasks[t].ns, tasks[t].key)]
       IN  /\ stored.createdAt = tasks[t].entry.createdAt
           /\ stored.value = tasks[t].entry.value
           /\ stored.expiresAt = tasks[t].entry.expiresAt
           /\ OrZero(stored.accessCount) >= OrZero(tasks[t].entry.accessCount) - 1

\* C28: every get() of a key that is not expired adds one to the
\* accessCount stored under the key when it completes, so that n get()
\* calls with no write to the key in between leave it n higher, also when
\* the calls interleave at their storage requests.
C28_EveryReadCounts ==
    [][\A t \in TaskIds :
          CompletesRead(t)
          => OrZero(store'[k(tasks[t].ns, tasks[t].key)].accessCount)
             = OrZero(store[k(tasks[t].ns, tasks[t].key)].accessCount) + 1
      ]_vars

\* C29: a get() without staleWhileRevalidate that has returned and had
\* read an entry whose expiresAt was earlier than the time of the call
\* returned null, not the value of the entry, after emitting 'expire'; and
\* the step in which it returned removed the key from the store and added
\* one to stats.misses.
C29_ExpiredIsNeverReturned ==
    /\ [](\A t \in GetCalls :
             ( /\ tasks[t].pc = "resolved"
               /\ ~tasks[t].swr
               /\ tasks[t].entry # NoEntry
               /\ Truthy(tasks[t].entry.expiresAt)
               /\ tasks[t].entry.expiresAt < tasks[t].now )
             => /\ tasks[t].result = "null"
                /\ tasks[t].emitted = <<Event("expire", tasks[t].key)>>)
    /\ [][\A t \in TaskIds :
             ( /\ tasks[t].op = "get"
               /\ tasks[t].pc = "deleteRaw"
               /\ tasks'[t].pc = "resolved" )
             => /\ k(tasks[t].ns, tasks[t].key) \notin DOMAIN store'
                /\ stats'[tasks[t].ns].misses = stats[tasks[t].ns].misses + 1
         ]_vars

\* A get() without staleWhileRevalidate returned null for an entry it had
\* found expired, and the key is no longer in the store.
C29_Witness ==
    \E t \in GetCalls :
        /\ tasks[t].pc = "resolved"
        /\ ~tasks[t].swr
        /\ tasks[t].entry # NoEntry
        /\ tasks[t].entry.expiresAt < tasks[t].now
        /\ tasks[t].result = "null"
        /\ k(tasks[t].ns, tasks[t].key) \notin DOMAIN store
        /\ stats[tasks[t].ns].misses > 0

\* Call t is the set() that the callback of a resolved revalidate() made.
Revalidated(t) == tasks[t].op = "set" /\ tasks[t].by = "revalidate"

\* The store holds, under the key of call t, the value the call was given,
\* with the expiry that the ttlOnRevalidate of the get() gives: none
\* without it, and that much after the entry was created with it.
HoldsRevalidated(t) ==
    /\ k(tasks[t].ns, tasks[t].key) \in DOMAIN store
    /\ LET stored == store[k(tasks[t].ns, tasks[t].key)]
       IN  /\ stored.value = tasks[t].entry.value
           /\ stored.expiresAt
              = IF Truthy(tasks[t].ttlOnRevalidate)
                THEN stored.createdAt + tasks[t].ttlOnRevalidate
                ELSE Undefined

\* C30: a get() with staleWhileRevalidate and a revalidate callback that
\* finds the entry expired returns its stale value in the step that read
\* it, leaves the store as it is and has revalidate() running; and once
\* revalidate() has resolved and its callback has called set(), the store
\* eventually holds the revalidated value under the key, with the expiry
\* that ttlOnRevalidate gives.
C30_StaleWhileRevalidate ==
    /\ [][\A t \in TaskIds :
             ( /\ tasks[t].op = "get"
               /\ tasks[t].pc = "getRaw"
               /\ tasks[t].swr
               /\ k(tasks[t].ns, tasks[t].key) \in DOMAIN store
               /\ isExpired(store[k(tasks[t].ns, tasks[t].key)].expiresAt)
               /\ tasks'[t] # tasks[t] )
             => /\ tasks'[t].pc = "resolved"
                /\ tasks'[t].result = store[k(tasks[t].ns, tasks[t].key)].value
                /\ store' = store
                /\ [ns |-> tasks[t].ns, key |-> tasks[t].key,
                    ttl |-> tasks[t].ttlOnRevalidate] \in revalidating'
         ]_vars
    /\ \A t \in TaskIds :
          (Revalidated(t) /\ tasks[t].pc = "putRaw")
          ~> (Revalidated(t) /\ tasks[t].pc # "putRaw" /\ HoldsRevalidated(t))

\* The store holds a revalidated value, with the expiry that the
\* ttlOnRevalidate of the get() gave, in place of the stale value that the
\* get() returned.
C30_Witness ==
    \E t \in TaskIds, u \in GetCalls :
        /\ Revalidated(t)
        /\ tasks[t].pc = "resolved"
        /\ HoldsRevalidated(t)
        /\ Truthy(tasks[t].ttlOnRevalidate)
        /\ tasks[u].pc = "resolved"
        /\ tasks[u].swr
        /\ tasks[u].expired
        /\ tasks[u].result # "null"
        /\ tasks[u].result # tasks[t].entry.value

\* -------------------------------------------------------------- plugins
\* A plugin's beforeSet or beforeDelete answers each call by itself; the
\* call carries the answer as `proceed`.

\* A call that goes on whatever its plugins answered.
Vetoed_Never(task) == FALSE

\* `if (proceed === false) return`, after a plugin answered false.
Vetoed(task) == ~task.proceed

\* An entry exists whatever getRaw returned.
Existed_Always(s, fullKey) == TRUE

\* `(await this.getRaw(key)) !== undefined`
Existed(s, fullKey) == fullKey \in DOMAIN s

\* The caller calls set(key, value) on engine ns, whose plugin answers
\* beforeSet with `proceed`.  After a veto set() returns at once.
PluginSet(ns, key, value, proceed) ==
    /\ started < MaxOps
    /\ SomeFree
    /\ LET task == [SetTask(ns, key, value, Undefined, "caller")
                        EXCEPT !.proceed = proceed]
       IN  tasks' = [tasks EXCEPT ![Slot] =
                        IF Vetoed(task)
                        THEN [task EXCEPT !.pc = "resolved", !.result = "void"]
                        ELSE task]
    /\ started' = started + 1
    /\ UNCHANGED <<now, engineVars, jobs, stats, faults, revalidating,
                   policyVars, listenerVars, written>>

\* The caller calls remove(key) on engine ns, whose plugin answers
\* beforeDelete with `proceed`.  After a veto remove() returns false at
\* once; else it awaits getRaw.
PluginRemove(ns, key, proceed) ==
    /\ started < MaxOps
    /\ SomeFree
    /\ LET task == [IdleTask EXCEPT !.op = "remove", !.ns = ns, !.key = key,
                                    !.pc = "getRaw", !.proceed = proceed,
                                    !.present = k(ns, key) \in DOMAIN store]
       IN  tasks' = [tasks EXCEPT ![Slot] =
                        IF Vetoed(task)
                        THEN [task EXCEPT !.pc = "resolved", !.result = "false"]
                        ELSE task]
    /\ started' = started + 1
    /\ UNCHANGED <<now, engineVars, jobs, stats, faults, revalidating,
                   policyVars, listenerVars, written>>

\* remove(): getRaw returns, and `existed` is assigned.
RemoveGetRaw(t) ==
    /\ tasks[t].op = "remove"
    /\ tasks[t].pc = "getRaw"
    /\ tasks' = [tasks EXCEPT ![t].existed =
                                  Existed(store, k(tasks[t].ns, tasks[t].key)),
                              ![t].pc = "deleteRaw"]
    /\ UNCHANGED <<now, engineVars, jobs, stats, started, faults, revalidating,
                   policyVars, listenerVars, written>>

\* remove(): deleteRaw takes effect; stats.deletes++ when the entry
\* existed, the 'delete' event, the broadcast, and `existed` is returned.
RemoveDeleteRaw(t) ==
    /\ tasks[t].op = "remove"
    /\ tasks[t].pc = "deleteRaw"
    /\ store' = deleteRaw(store, tasks[t].ns, tasks[t].key)
    /\ IF tasks[t].existed
       THEN /\ stats' = Counted(tasks[t].ns, "deletes")
            /\ jobs' = updateStats(tasks[t].ns)
       ELSE UNCHANGED <<stats, jobs>>
    /\ tasks' = [tasks EXCEPT ![t].emitted = Append(@, Event("delete", tasks[t].key)),
                              ![t].pc = "resolved",
                              ![t].result = IF tasks[t].existed THEN "true"
                                            ELSE "false"]
    /\ channel' = Broadcast(tasks[t], "delete")
    /\ UNCHANGED <<now, enableSync, enableStats, evictions, last, started,
                   faults, revalidating, policyVars, listenerVars, written>>

\* Two engines with statistics and sync on, whose store raises no error.
InitPlugins ==
    /\ NoListeners
    /\ written = {}
    /\ now = 1
    /\ store = <<>>
    /\ enableSync = TRUE
    /\ channel = {}
    /\ enableStats = TRUE
    /\ evictions = [ns \in Namespaces |-> 0]
    /\ last = <<"new", <<>>>>
    /\ pStrategy = "lru"
    /\ pEntries = <<>>
    /\ pMaxSize = 0
    /\ pCurrentSize = 0
    /\ pCalls = 0
    /\ pResult = <<>>
    /\ pEvalAt = 0
    /\ pFirst = <<>>
    /\ pFirstAt = 0
    /\ NoCalls

NextPlugins ==
    \/ \E ns \in Namespaces, key \in Keys, value \in Values, proceed \in BOOLEAN :
          Sequential /\ PluginSet(ns, key, value, proceed)
    \/ \E ns \in Namespaces, key \in Keys, proceed \in BOOLEAN :
          Sequential /\ PluginRemove(ns, key, proceed)
    \/ \E t \in TaskIds : SetPutRaw(t)
    \/ \E t \in TaskIds : EvictGetAllEntries(t)
    \/ \E t \in TaskIds : EvictDeleteRaw(t)
    \/ \E t \in TaskIds : RemoveGetRaw(t)
    \/ \E t \in TaskIds : RemoveDeleteRaw(t)
    \/ \E j \in jobs : UpdateStatsSize(j)
    \/ \E j \in jobs : UpdateStatsCount(j)

SpecPlugins == InitPlugins /\ [][NextPlugins]_vars

\* ------------------------------------------------------------- listeners
\* emit() and handleError() are synchronous: a listener runs inside the
\* forEach of emit, and a listener that throws is caught there and given
\* to handleError, which emits 'error' inside the catch.  The call stack
\* holds one frame for each emit() that has not returned; the model keeps
\* the MaxDepth innermost frames, and the frames below them are resumed
\* only after those have returned.

\* this.eventListeners.get(event): the listeners emit(event) calls.
ListenersOf(event) ==
    {l \in Listeners : l.event = event /\ registered[l] \in {"on", "once"}}

\* The frame of emit(event): the listeners its forEach has still to call,
\* and whether the depth of the frame on the call stack is odd or even.
EmitFrame(event, level) ==
    [event |-> event, pending |-> ListenersOf(event), level |-> level]

\* The listeners the innermost forEach goes on with: a listener removed
\* from the set before its turn is not called.
Pending ==
    IF stack = <<>> THEN {}
    ELSE {l \in stack[Len(stack)].pending : registered[l] \in {"on", "once"}}

\* on(event, listener)
On(l) ==
    /\ stack = <<>>
    /\ registered[l] \in {"no", "done"}
    /\ registered' = [registered EXCEPT ![l] = "on"]
    /\ invoked' = [invoked EXCEPT ![l] = 0]
    /\ UNCHANGED <<now, stack, policyVars, engineVars, taskVars, written>>

\* once(event, listener): on(event, onceListener), where onceListener
\* calls listener(data) and then off(event, onceListener).
Once(l) ==
    /\ stack = <<>>
    /\ registered[l] \in {"no", "done"}
    /\ registered' = [registered EXCEPT ![l] = "once"]
    /\ invoked' = [invoked EXCEPT ![l] = 0]
    /\ UNCHANGED <<now, stack, policyVars, engineVars, taskVars, written>>

\* off(event, listener) of a listener registered with on().
Off(l) ==
    /\ stack = <<>>
    /\ registered[l] = "on"
    /\ registered' = [registered EXCEPT ![l] = "no"]
    /\ UNCHANGED <<now, invoked, stack, policyVars, engineVars, taskVars, written>>

\* A call of the engine reaches its this.emit(event, ...).
Emit(event) ==
    /\ stack = <<>>
    /\ stack' = <<EmitFrame(event, 1)>>
    /\ UNCHANGED <<now, registered, invoked, policyVars, engineVars, taskVars,
                   written>>

\* A call of the engine catches an error: handleError(error) counts it
\* and emits 'error'.
HandleError ==
    /\ stack = <<>>
    /\ stack' = <<EmitFrame("error", 1)>>
    /\ stats' = Counted(Root, "errors")
    /\ UNCHANGED <<now, registered, invoked, policyVars, engineVars, tasks, jobs,
                   started, faults, revalidating, written>>

\* The innermost forEach calls its next listener.  One that returns and
\* was registered with once() is then removed by its wrapper; one that
\* throws leaves the wrapper before off(), and the catch of emit calls
\* handleError, which emits 'error' in a new frame.
Invoke(l) ==
    /\ l \in Pending
    /\ invoked' = [invoked EXCEPT ![l] = IF @ < MaxInvocations THEN @ + 1 ELSE @]
    /\ LET called == [stack EXCEPT ![Len(stack)].pending = @ \ {l}]
       IN  IF l.throws
           THEN /\ stack' = Append(IF Len(stack) < MaxDepth THEN called
                                       ELSE Tail(called),
                                       EmitFrame("error", 1 - stack[Len(stack)].level))
                /\ stats' = Counted(Root, "errors")
                /\ UNCHANGED registered
           ELSE /\ stack' = called
                /\ registered' = [registered EXCEPT ![l] =
                                     IF @ = "once" THEN "done" ELSE @]
                /\ UNCHANGED stats
    /\ UNCHANGED <<now, policyVars, engineVars, tasks, jobs, started, faults,
                   revalidating, written>>

\* The innermost forEach has called every listener: emit returns.  After
\* the emit of handleError, onError and the plugin handlers run and
\* handleError returns into the catch it was called from.
Return ==
    /\ stack # <<>>
    /\ Pending = {}
    /\ stack' = SubSeq(stack, 1, Len(stack) - 1)
    /\ UNCHANGED <<now, registered, invoked, policyVars, engineVars, taskVars,
                   written>>

\* One engine with sync and statistics disabled.
InitListeners == Init /\ ~enableSync

\* A step of the synchronous code that is on the call stack.
Runs == Return \/ \E l \in Listeners : Invoke(l)

NextListeners ==
    \/ \E l \in Listeners : On(l)
    \/ \E l \in Listeners : Once(l)
    \/ \E l \in Listeners : Off(l)
    \/ \E event \in Events \ {"error"} : Emit(event)
    \/ HandleError
    \/ \E l \in Listeners : Invoke(l)
    \/ Return

SpecListeners == InitListeners /\ [][NextListeners]_vars

\* JavaScript runs the code on the call stack to completion before any
\* other call: a forEach that can go on does.
SpecReporting == InitListeners /\ [][NextListeners]_vars /\ WF_vars(Runs)

\* ------------------------------------------------------- the store keys
\* Callers choose the namespace and the key freely; both may hold a colon,
\* as in set("user:42", ...) of the README.

\* The namespaces engines are made for.
KeyNamespaces == {<<>>, <<"a">>, <<"a", ":", "b">>}

\* The keys callers pass.
KeyStrings == {<<"x">>, <<"a", ":", "x">>, <<"b", ":", "x">>}

\* this.k(key) of the engine of the namespace: buildKey is applied to the
\* pair, and the pair is kept with the store key it was given.
BuildKey(namespace, key) ==
    /\ written' = written \cup {[namespace |-> namespace, key |-> key,
                                  fullKey |-> buildKey(namespace, key)]}
    /\ UNCHANGED <<now, policyVars, engineVars, taskVars, listenerVars>>

NextKeys ==
    \E namespace \in KeyNamespaces, key \in KeyStrings : BuildKey(namespace, key)

SpecKeys == Init /\ [][NextKeys]_vars

\* ------------------------------------------------------------------ sync

\* The instanceId of an engine of another tab.
OtherTab == <<"tab2">>

\* The messages engines post on the channel, each with the engine of this
\* tab it reaches.
SyncMessages ==
    {d \in [to : Namespaces,
            msg : [type : {"set", "delete", "clear"}, key : Keys \cup {NoKey},
                   source : Namespaces \cup {OtherTab}]] :
        (d.msg.type = "clear") <=> (d.msg.key = NoKey)}

\* An engine of another tab broadcasts after its own set, remove or clear.
\* Each engine draws its instanceId by itself (generateId), so the source
\* may also be the id of the engine the message reaches.
OtherTabPosts(d) ==
    /\ enableSync
    /\ d.msg.source \in {OtherTab, d.to}
    /\ Cardinality(channel) < MaxPending
    /\ channel' = channel \cup {d}
    /\ UNCHANGED <<now, store, enableSync, enableStats, evictions, last,
                   policyVars, taskVars, listenerVars, written>>

\* The engines with sync enabled.
InitSync == Init /\ enableSync

NextSync ==
    \/ \E ns \in Namespaces, key \in Keys, size \in 1..MaxEntrySize :
          Set(ns, key, size, Undefined)
    \/ \E ns \in Namespaces, key \in Keys : Remove(ns, key)
    \/ \E ns \in Namespaces : Clear(ns)
    \/ \E d \in SyncMessages : OtherTabPosts(d)
    \/ \E d \in channel : HandleSyncMessage(d)

\* The browser delivers every message posted on a BroadcastChannel: the
\* onmessage handler of the receiving engine runs as a task of its own.
SpecSync ==
    /\ InitSync
    /\ [][NextSync]_vars
    /\ \A d \in SyncMessages :
          WF_vars(HandleSyncMessage(d))

\* ----------------------------------------------------------------- query

\* The `expired` field of the query: absent, true or false.
ExpiredFilters == {"undefined", "true", "false"}

\* entries.filter(...) on query.expired.
FilterExpired(entries, expired) ==
    IF expired = "undefined" THEN entries
    ELSE SelectSeq(entries,
             LAMBDA e : isExpired(e.entry.expiresAt) <=> (expired = "true"))

\* The store after get(key, { updateAccessTime: false }) on engine ns: no
\* entry is a miss, an expired entry is deleted, another is returned and
\* not written back.
GetUntouched(s, ns, key) ==
    IF k(ns, key) \notin DOMAIN s THEN s
    ELSE IF isExpired(s[k(ns, key)].expiresAt) THEN deleteRaw(s, ns, key)
    ELSE s

\* The loop of query() that fetches the value of each entry left.
RECURSIVE FetchValues(_, _, _)
FetchValues(s, ns, entries) ==
    IF entries = <<>> THEN s
    ELSE FetchValues(GetUntouched(s, ns, parseKey(Head(entries).key, ns)),
                     ns, Tail(entries))

\* query({ expired }) on engine ns, with no plugin.
Query(ns, expired) ==
    /\ store' = FetchValues(store, ns,
                     FilterExpired(getAllEntries(store), expired))
    /\ last' = <<"query", ns>>
    /\ UNCHANGED <<now, enableSync, enableStats, channel, evictions,
                   policyVars, taskVars, listenerVars, written>>

\* The engines with sync and statistics disabled.
InitQuery == Init /\ ~enableSync

NextQuery ==
    \/ \E ns \in Namespaces, key \in Keys, size \in 1..MaxEntrySize, ttl \in ReadTTLs :
          Set(ns, key, size, ttl)
    \/ \E ns \in Namespaces, expired \in ExpiredFilters : Query(ns, expired)
    \/ Tick

SpecQuery == InitQuery /\ [][NextQuery]_vars

\* ---------------------------------------------- claims on reads and writes

\* The store keys the engines use.
FullKeys == {k(ns, key) : ns \in Namespaces, key \in Keys}

\* The step is the putRaw of call t taking effect.
PutRawOf(t, op) ==
    /\ tasks[t].op = op
    /\ tasks[t].pc = "putRaw"
    /\ tasks'[t].pc # "putRaw"

\* C35: a deleted entry stays deleted.  A key that is absent from the
\* store, after a remove or an eviction of it, comes back only by the
\* putRaw of a set of that key: a get(key) in flight never writes the
\* entry back.
C35_DeletedStaysDeleted ==
    [][\A fullKey \in FullKeys :
          fullKey \notin DOMAIN store /\ fullKey \in DOMAIN store'
          => \E t \in TaskIds : /\ PutRawOf(t, "set")
                                /\ k(tasks[t].ns, tasks[t].key) = fullKey]_vars

\* Every set of the store key that was called has completed.
SetsCompleted(fullKey) ==
    \A u \in TaskIds :
        tasks[u].op = "set" /\ k(tasks[u].ns, tasks[u].key) = fullKey
        => tasks[u].pc = "resolved"

\* C36: a completed write is not lost to a concurrent read.  The putRaw
\* of a get(key) leaves the value, the size and expiresAt stored under
\* the key by a completed set(key, v2) as they are: it never brings back
\* those of the entry the get read before the set.
C36_WriteNotLostToRead ==
    [][\A t \in TaskIds :
          LET fullKey == k(tasks[t].ns, tasks[t].key)
          IN  /\ PutRawOf(t, "get")
              /\ fullKey \in DOMAIN store
              /\ SetsCompleted(fullKey)
              => /\ store'[fullKey].value = store[fullKey].value
                 /\ store'[fullKey].size = store[fullKey].size
                 /\ store'[fullKey].expiresAt = store[fullKey].expiresAt]_vars

\* ------------------------------------------------- claims on whole calls

\* In the store s, a get read the entry under a after the entry under b
\* was last written or read, and a was not written since: a carries the
\* count of a read and the later access time.
ReadAfter(s, a, b) ==
    /\ a \in DOMAIN s /\ b \in DOMAIN s
    /\ OrZero(s[a].accessCount) >= 1
    /\ s[a].lastAccessed > s[b].lastAccessed

\* C33: end-to-end LRU.  With the lru strategy, when a set puts its entry
\* and the store then holds a key a that a get read successfully after
\* key b was last written or read, the eviction of that set does not
\* remove a while it leaves b in the store.
C33_RecentlyReadOutlivesOlder ==
    [][\A ns \in Namespaces, key \in Keys, size \in 1..MaxEntrySize, ttl \in TTLs :
          Set(ns, key, size, ttl)
          => LET put == putRaw(store, ns, key, NewEntry(size, ttl))
             IN  \A a \in DOMAIN put, b \in DOMAIN put :
                    ReadAfter(put, a, b)
                    => ~(a \notin DOMAIN store' /\ b \in DOMAIN store')]_vars

\* ------------------------------------------------- claims on the store keys

\* C38: store keys are unambiguous across namespaces.  Two different
\* (namespace, key) pairs, the root namespace included, are never given
\* the same store key by buildKey.
C38_StoreKeysUnambiguous ==
    \A p \in written, q \in written :
        <<p.namespace, p.key>> # <<q.namespace, q.key>> => p.fullKey # q.fullKey

\* -------------------------------------------------------- claims on query

\* C37: query never changes the store.  After query(q), for any q, every
\* entry that was in the store before is still there with the same
\* lastAccessed and accessCount.
C37_QueryLeavesStore ==
    [][\A ns \in Namespaces, expired \in ExpiredFilters :
          Query(ns, expired)
          => \A fullKey \in DOMAIN store :
                /\ fullKey \in DOMAIN store'
                /\ store'[fullKey].lastAccessed = store[fullKey].lastAccessed
                /\ store'[fullKey].accessCount = store[fullKey].accessCount]_vars

\* --------------------------------------------------------- claims on sync

\* C40: cross-tab sync cannot loop.  Handling a message takes it off the
\* channel and posts none, and a message whose source is the id of the
\* engine it reached changes nothing; a local set, remove or clear puts at
\* most one message on the channel of each other engine and none on its
\* own; every message in flight is handled, so handling comes to rest.
C40_SyncCannotLoop ==
    /\ [][\A d \in channel :
             HandleSyncMessage(d)
             => /\ channel' = channel \ {d}
                /\ d.msg.source = d.to => store' = store]_vars
    /\ [][\A e \in Namespaces :
             /\ Cardinality({d \in channel' \ channel : d.to = e}) <= 1
             /\ \A d \in channel' \ channel :
                    d.to = e /\ last' # last => last'[2] # e]_vars
    /\ \A d \in SyncMessages : (d \in channel) ~> (d \notin channel)

\* C40 witness: the namespaced engine handled a message another engine
\* broadcast, and no message is in flight.
C40_Witness ==
    /\ enableSync
    /\ last = <<"handleSyncMessage", <<"a">>>>
    /\ channel = {}
    /\ store # <<>>

\* ---------------------------------------------------- claims on listeners

\* C32: a listener registered with once(event, listener) is called for at
\* most one emission of the event, whatever emissions follow.
C32_OnceAtMostOnce ==
    \A l \in Listeners : registered[l] \in {"once", "done"} => invoked[l] <= 1

\* handleError is on the call stack: its emit('error') has not returned.
Reporting == \E n \in 1..Len(stack) : stack[n].event = "error"

\* C39: error reporting terminates.  Whenever handleError runs it
\* finishes, whatever listeners are registered, an 'error' listener that
\* throws included.
C39_ErrorReportingFinishes == Reporting ~> ~Reporting

\* ------------------------------------------------------ claims on plugins

\* The step is one of call t, which is after it a call of the operation.
StepOf(t, op) == tasks'[t] # tasks[t] /\ tasks'[t].op = op

\* The call t completes in the step.
Completes(t) == tasks[t].pc # "resolved" /\ tasks'[t].pc = "resolved"

C34_VetoedSetChangesNothing ==
    [][\A t \in TaskIds :
          StepOf(t, "set") /\ ~tasks'[t].proceed
          => /\ tasks'[t].pc = "resolved"
             /\ tasks'[t].emitted = <<>>
             /\ UNCHANGED <<store, stats, evictions, jobs, channel>>]_vars

\* C34 witness: a vetoed set of a new key has returned while the store
\* holds other entries, and the key is still not stored.
C34_Witness ==
    \E t \in TaskIds :
        /\ tasks[t].op = "set" /\ tasks[t].pc = "resolved"
        /\ ~tasks[t].proceed
        /\ tasks[t].emitted = <<>>
        /\ store # <<>>
        /\ k(tasks[t].ns, tasks[t].key) \notin DOMAIN store
        /\ stats[tasks[t].ns].sets = 0


====
